---- MODULE Spec2Model ----
(***************************************************************************)
(* Model of the netblocks monitoring engine: the RIS Live BGP subscriber   *)
(* (internal/monitor/bgp.go), the DNS prober (internal/monitor/dns.go)     *)
(* and the merged snapshot (internal/monitor/monitor.go).                  *)
(*                                                                         *)
(* Strings that the code slices or formats (ASN names, decimal numbers)    *)
(* are sequences of one-character strings.  Time is counted in seconds;    *)
(* time.Time{} (the zero time, year 1) is ZeroTime, far below the epoch.   *)
(* A float64 read from JSON is kept in tenths (70 is 7.0, 74 is 7.4).      *)
(***************************************************************************)
EXTENDS Integers, Sequences, FiniteSets, TLC

(***************************************************************************)
(* Bounds of the model                                                     *)
(***************************************************************************)
\* successful dials explored (initial dial + redials)
MaxDials == 2
\* the clock stops advancing at MaxTime seconds
MaxTime == 1800
\* seconds added by one step of the clock
TickStep == 900
\* at most this many ticks of the publication loop are handled
MaxTicks == 3
\* a publication keeps the loop busy for at most this many seconds
MaxPublishDelay == 2
\* at most this many user messages are handled by the bot
MaxMessages == 2
\* the longest series the Radar service answers with
MaxSeriesLen == 25
\* between two calls of the Radar client this many seconds pass
FreshStep == 150
\* the Radar client is followed up to this second
MaxFreshTime == 300

(***************************************************************************)
(* Program constants                                                       *)
(***************************************************************************)
\* bgp.go:404  timeSinceLastSeen < 30*time.Minute, in seconds
ConnectedWindow == 1800
\* dns.go:173  maxRetries := 2
maxRetries == 2
\* GetTrafficData: 5*time.Minute, in seconds
FreshTTL == 300
\* sliceLast24: the number of data points kept
Last24 == 24
\* processData: the number of trend entries the baseline is the mean of
BaselineCount == 12
\* time.Minute, in seconds
Minute == 60
\* SendPeriodicUpdates: channelInterval, 10 minutes
ChannelInterval == 600
\* time.Time{} in seconds relative to the Unix epoch.  The real value is
\* -62135596800; every value further than ConnectedWindow below the clock
\* behaves the same, now.Sub saturating at about 292 years.
ZeroTime == 0 - 100000

(***************************************************************************)
(* Configuration (config.Config): cfg.IranASNs and cfg.DNSServers          *)
(***************************************************************************)
AS7 == <<"A", "S", "7">>
AS12 == <<"A", "S", "1", "2">>
\* GetDefaultIranianASNs: the built-in list (two entries stand for it)
GetDefaultIranianASNs == <<AS7, AS12>>

\* the ASN lists a configuration file may carry
ConfigFiles == {<<>>, GetDefaultIranianASNs}

\* LoadConfig: an empty list in the file is replaced by the default list
LoadConfig(list) == IF Len(list) = 0 THEN GetDefaultIranianASNs ELSE list

\* cfg.DNSServers: two curated lists, one with an address under two names
SharedAddress ==
  << [Address |-> "10.0.0.1", Name |-> "X", Type |-> "recursive"],
     [Address |-> "10.0.0.1", Name |-> "Y", Type |-> "authoritative"] >>
DistinctAddresses ==
  << [Address |-> "10.0.0.1", Name |-> "X", Type |-> "recursive"],
     [Address |-> "10.0.0.2", Name |-> "Z", Type |-> "both"] >>
DNSServers == {SharedAddress, DistinctAddresses}
\* a list with a single server
SingleServer ==
  << [Address |-> "10.0.0.1", Name |-> "X", Type |-> "recursive"] >>
\* cfg.Interval, the subscribers' interval the bot starts with
cfgInterval == 2 * Minute
\* cfg.TelegramChannel after NewBot's normalisation: none, or a channel
Channels == {"", "@netblocks"}

Range(s) == {s[i] : i \in 1..Len(s)}

VARIABLES
  \* ---- RISLiveClient (bgp.go:16-25) and its reader goroutine
  bgpPc,          \* position of NewMonitor / readMessages / reconnect
  bootIdx,        \* index of NewMonitor's loop over cfg.IranASNs
  conn,           \* c.conn: 0 is nil, otherwise the dial that produced it
  connUp,         \* the socket behind c.conn still carries reads/writes
  dials,          \* successful dials so far
  subscribedASNs, \* c.subscribedASNs (keys mapped to true)
  asnStatuses,    \* c.asnStatuses
  framesSent,     \* subscribe frames written: <<connection, peer_asn>>
  resubTodo,      \* ASNs reconnect's resubscribe loop has still to visit
  reconnecting,   \* c.reconnecting
  done,           \* c.done is closed
  \* ---- Monitor
  results,        \* m.results, the snapshot handed out by GetResults
  \* ---- DNSMonitor (dns.go:19-24) and one CheckAll round
  servers,        \* dm.servers
  statuses,       \* dm.statuses
  probe,          \* per server: the checkServer goroutine of the round
  roundResults,   \* CheckAll's local results map
  aliveIPs,       \* CheckAll's local aliveIPs map
  roundActive,    \* a CheckAll call is in progress
  roundStart,     \* start := time.Now() of the round's goroutines
  preRound,       \* history: dm.statuses when the round began
  \* ---- environment and history
  now,            \* time.Now() in minutes
  lastOp,         \* history: name of the operation that ran last
  lastMsg,        \* history: the UPDATE handled by the last handleRISMessage
  \* ---- TrafficMonitor and the Radar service
  radar,          \* environment: how the Radar service of this run behaves
  charts,         \* environment: the charts this run's snapshots come with
  cachedData,     \* tm.cachedData
  lastUpdate,     \* tm.lastUpdate
  baseline,       \* tm.baseline
  requests,       \* history: location codes requested by the last call
  trafficRet,     \* history: what the last call returned (data, err)
  \* ---- Monitor: the object m.results points to
  resultsRef,     \* identity of the object m.results points to
  \* ---- Bot
  updateInterval, \* b.updateInterval, in seconds
  subscribedChats, \* b.subscribedChats
  channelID,      \* b.channelID
  reply,          \* history: the last sendStatusMessages of a /status
  changeAt,       \* history: time of the last change of updateInterval
  awaiting,       \* history: no subscriber publication since that change
  handled,        \* history: how many user messages were handled
  \* ---- SendPeriodicUpdates: position and locals
  pubPc,          \* "wait", "snapshot", "channel" or "users"
  lastInterval, lastUpdateTime, lastChannelUpdateTime,
  shouldSendChannelUpdate, shouldSendUserUpdate,
  pubResult,      \* result: the pointer held and the object seen through it
  usersTodo,      \* chats the loop over subscribedChats has still to visit
  sent,           \* history: the sendStatusMessages calls of this tick
  tickSnapshot,   \* history: the result as it was when the tick took it
  tickPending,    \* checkTicker holds a tick that was not yet received
  tickStart,      \* time the handler of the current tick began
  ticks,          \* ticks handled so far
  \* ---- configuration file, process and tasks
  fileASNs,       \* the ASN list of the configuration file
  ctxDone,        \* main's context has been cancelled
  tasks,          \* per long-running loop: "unstarted", "running" or "ended"
  process,        \* "running", "exited" (log.Fatalf) or "crashed" (panic)
  resolver,       \* environment: how the DNS servers of this run behave
  \* ---- history
  snapHist,       \* dirty: a component has written since the last
                  \* GetResults call; prev: what the call before the last
                  \* returned, when nothing was written between the two
  handedOut       \* keys whose stored DNSStatus object a finished CheckAll
                  \* has returned to its caller

\* cfg.IranASNs as main hands it to NewMonitor
IranASNs == LoadConfig(fileASNs)

\* the long-running loops besides the BGP reader: DNSMonitor.StartPeriodicCheck,
\* TrafficMonitor.Start, Monitor.Start and Bot.SendPeriodicUpdates
Loops == {"dns", "radar", "sweep", "pub"}

\* no earlier snapshot to compare with
NoSnapshot == [Timestamp |-> ZeroTime]

NoHist == [prev |-> NoSnapshot, dirty |-> TRUE]

\* a component writes to its store
Wrote == snapHist' = NoHist

bgpVars == <<bgpPc, bootIdx, conn, connUp, dials, subscribedASNs, asnStatuses,
             framesSent, resubTodo, reconnecting, done, results>>
dnsVars == <<servers, statuses, probe, roundResults, aliveIPs, roundActive, roundStart, preRound>>
trafficVars ==
  <<radar, charts, cachedData, lastUpdate, baseline, requests, trafficRet>>
tickVars == <<pubPc, lastInterval, lastUpdateTime, lastChannelUpdateTime,
              shouldSendChannelUpdate, shouldSendUserUpdate, usersTodo, sent,
              tickSnapshot, tickPending, tickStart, ticks>>
chatVars ==
  <<updateInterval, subscribedChats, channelID, reply, changeAt, awaiting, handled>>
heapVars == <<pubResult, resultsRef>>
botVars == <<tickVars, chatVars, heapVars>>
lifeVars == <<fileASNs, ctxDone, tasks, process, resolver>>
histVars == <<snapHist, handedOut>>
vars == <<bgpVars, dnsVars, trafficVars, botVars, lifeVars, histVars,
          now, lastOp, lastMsg>>

(***************************************************************************)
(* BGP: pure helpers                                                       *)
(***************************************************************************)
DigitChars == <<"0", "1", "2", "3", "4", "5", "6", "7", "8", "9">>

\* decimal digits of a natural number
RECURSIVE DecimalDigits(_)
DecimalDigits(n) ==
  IF n < 10 THEN <<DigitChars[n + 1]>>
  ELSE DecimalDigits(n \div 10) \o <<DigitChars[(n % 10) + 1]>>

\* fmt.Sprintf("%.0f", v) for a non-negative v given in tenths: no decimals,
\* rounded to nearest, halves to even
FormatFloat0(v) ==
  LET whole == v \div 10
      frac == v % 10
      rounded == IF frac < 5 THEN whole
                 ELSE IF frac > 5 THEN whole + 1
                 ELSE IF whole % 2 = 0 THEN whole ELSE whole + 1
  IN DecimalDigits(rounded)

\* the "AS" prefix stripping of SubscribeToASN and handleRISMessage
asnNumber(asn) ==
  IF Len(asn) > 2 /\ SubSeq(asn, 1, 2) = <<"A", "S">>
  THEN SubSeq(asn, 3, Len(asn))
  ELSE asn

\* elements of RISUpdateMessage.Path after json decoding into []interface{}
PNum(n) == [k |-> "num", n |-> n, s |-> <<>>, items |-> <<>>]
PStr(s) == [k |-> "str", n |-> 0, s |-> s, items |-> <<>>]
PSet(items) == [k |-> "set", n |-> 0, s |-> <<>>, items |-> items]

\* PathItemMatches without the AS_SET case of the type switch
PathItemMatches_NoSet(item, number) ==
  CASE item.k = "num" -> FormatFloat0(item.n) = number
    [] item.k = "str" -> item.s = number
    [] OTHER -> FALSE

\* the type switch and comparison on one path element
PathItemMatches(item, number) ==
  CASE item.k = "num" -> FormatFloat0(item.n) = number
    [] item.k = "str" -> item.s = number
    [] item.k = "set" ->
         \E j \in 1..Len(item.items) :
           /\ item.items[j].k = "num"
           /\ FormatFloat0(item.items[j].n) = number
    [] OTHER -> FALSE

\* whether handleRISMessage stamps the record of asn for this update
UpdateMatches(asn, update) ==
  \/ update.PeerASN = asnNumber(asn)
  \/ \E i \in 1..Len(update.Path) : PathItemMatches(update.Path[i], asnNumber(asn))

\* the models.ASNStatus SubscribeToASN creates
NewASNStatus(asn, t) ==
  [ASN |-> asn, Connected |-> FALSE, LastSeen |-> ZeroTime, LastUpdate |-> t]

\* time.Unix(int64(update.Timestamp), 0): the float (in tenths) is truncated
\* toward zero to whole seconds
UnixTime(ts) == IF ts >= 0 THEN ts \div 10 ELSE 0 - ((0 - ts) \div 10)

\* CheckConnectivity exporting the stored flag without the 30 minute window
CheckConnectivity_NoWindow(t) ==
  [asn \in subscribedASNs |->
     IF asn \in DOMAIN asnStatuses
     THEN [ASN |-> asnStatuses[asn].ASN,
           Connected |-> asnStatuses[asn].Connected,
           LastSeen |-> asnStatuses[asn].LastSeen,
           LastUpdate |-> asnStatuses[asn].LastUpdate]
     ELSE NewASNStatus(asn, t)]

\* CheckConnectivity: the flag exported for a stored record at time t
DerivedConnected(status, t) ==
  LET timeSinceLastSeen == t - status.LastSeen
  IN  status.Connected /\ timeSinceLastSeen < ConnectedWindow

\* CheckConnectivity stamping every exported record with the time of the call
CheckConnectivity_StampOnRead(t) ==
  [asn \in subscribedASNs |->
     IF asn \in DOMAIN asnStatuses
     THEN LET status == asnStatuses[asn]
          IN [ASN |-> status.ASN,
              Connected |-> DerivedConnected(status, t),
              LastSeen |-> status.LastSeen,
              LastUpdate |-> t]
     ELSE NewASNStatus(asn, t)]

\* the map CheckConnectivity returns when called at time t
CheckConnectivity(t) ==
  [asn \in subscribedASNs |->
     IF asn \in DOMAIN asnStatuses
     THEN LET status == asnStatuses[asn]
          IN [ASN |-> status.ASN,
              Connected |-> DerivedConnected(status, t),
              LastSeen |-> status.LastSeen,
              LastUpdate |-> status.LastUpdate]
     ELSE NewASNStatus(asn, t)]

(***************************************************************************)
(* Inputs of the BGP feed                                                  *)
(***************************************************************************)
Paths ==
  { <<>>,
    <<PStr(<<"1", "2">>)>>,
    <<PNum(990), PSet(<<PNum(50), PNum(70)>>), PNum(120)>>,
    <<PSet(<<PNum(120)>>)>>,
    <<PSet(<<PStr(<<"7">>)>>)>>,
    <<PNum(74)>> }

PeerASNs == { <<"7">>, <<"9", "9">> }

NoMsg == [Type |-> "none", Timestamp |-> 0, PeerASN |-> <<>>, Path |-> <<>>]

\* timestamps (float seconds, in tenths) a message may carry at clock value t
Timestamps(t) == {ZeroTime * 10, t * 10, t * 10 + 5}

UpdateMsgs(t) ==
  [Type : {"UPDATE"}, Timestamp : Timestamps(t), PeerASN : PeerASNs, Path : Paths]
  \cup { [Type |-> "KEEPALIVE", Timestamp |-> t * 10, PeerASN |-> <<"7">>, Path |-> <<>>] }

(***************************************************************************)
(* BGP: operations                                                         *)
(***************************************************************************)
\* RISLiveClient.SubscribeToASN: the write succeeds while the socket is up
SubscribeToASN(asn) ==
  IF asn \in subscribedASNs
  THEN UNCHANGED <<subscribedASNs, asnStatuses, framesSent>>
  ELSE IF ~connUp
  THEN UNCHANGED <<subscribedASNs, asnStatuses, framesSent>>
  ELSE /\ framesSent' = framesSent \cup {<<conn, asnNumber(asn)>>}
       /\ subscribedASNs' = subscribedASNs \cup {asn}
       /\ asnStatuses' =
            IF asn \in DOMAIN asnStatuses THEN asnStatuses
            ELSE [a \in DOMAIN asnStatuses \cup {asn} |->
                    IF a = asn THEN NewASNStatus(asn, now) ELSE asnStatuses[a]]

\* StampStatuses where a matching update flips the stored flag
StampStatuses_Flip(stored, update, t) ==
  IF update.Type # "UPDATE"
  THEN stored
  ELSE [a \in DOMAIN stored |->
          IF a \in subscribedASNs /\ UpdateMatches(a, update)
          THEN [stored[a] EXCEPT !.Connected = ~stored[a].Connected,
                                 !.LastSeen = UnixTime(update.Timestamp),
                                 !.LastUpdate = t]
          ELSE stored[a]]

\* StampStatuses never moving LastSeen back: the later of the stored time
\* and the update's is kept
StampStatuses_KeepLatest(stored, update, t) ==
  IF update.Type # "UPDATE"
  THEN stored
  ELSE [a \in DOMAIN stored |->
          IF a \in subscribedASNs /\ UpdateMatches(a, update)
          THEN [stored[a] EXCEPT !.Connected = TRUE,
                                 !.LastSeen =
                                   IF UnixTime(update.Timestamp) > stored[a].LastSeen
                                   THEN UnixTime(update.Timestamp)
                                   ELSE stored[a].LastSeen,
                                 !.LastUpdate = t]
          ELSE stored[a]]

\* the records of c.asnStatuses after handleRISMessage has handled update
\* at time t
StampStatuses(stored, update, t) ==
  IF update.Type # "UPDATE"
  THEN stored
  ELSE [a \in DOMAIN stored |->
          IF a \in subscribedASNs /\ UpdateMatches(a, update)
          THEN [stored[a] EXCEPT !.Connected = TRUE,
                                 !.LastSeen = UnixTime(update.Timestamp),
                                 !.LastUpdate = t]
          ELSE stored[a]]

\* RISLiveClient.handleRISMessage on a decoded message
handleRISMessage(update) ==
  asnStatuses' = StampStatuses(asnStatuses, update, now)

\* LoopTop without the case <-c.done
LoopTop_IgnoreDone == "read"

\* top of the for/select loop of readMessages
LoopTop == IF done' THEN "exited" ELSE "read"

\* NewRISLiveClient: the initial dial succeeds
DialOk ==
  /\ bgpPc = "dial"
  /\ conn' = 1 /\ dials' = 1 /\ connUp' = TRUE
  /\ bgpPc' = "boot"
  /\ lastOp' = "DialOk" /\ lastMsg' = NoMsg
  /\ UNCHANGED <<bootIdx, subscribedASNs, asnStatuses, framesSent, resubTodo,
                 reconnecting, done, results, dnsVars, now>>
  /\ UNCHANGED <<trafficVars, botVars>>
  /\ UNCHANGED <<lifeVars, histVars>>

\* NewRISLiveClient: the initial dial fails, NewMonitor returns the error
DialFail ==
  /\ bgpPc = "dial"
  /\ bgpPc' = "failed"
  /\ lastOp' = "DialFail" /\ lastMsg' = NoMsg
  /\ UNCHANGED <<bootIdx, conn, connUp, dials, subscribedASNs, asnStatuses,
                 framesSent, resubTodo, reconnecting, done, results, dnsVars, now>>
  /\ UNCHANGED <<trafficVars, botVars>>
  /\ UNCHANGED <<lifeVars, histVars>>

\* NewMonitor: one iteration of the loop over cfg.IranASNs (errors are logged)
BootSubscribe ==
  /\ bgpPc = "boot"
  /\ bootIdx <= Len(IranASNs)
  /\ SubscribeToASN(IranASNs[bootIdx])
  /\ bootIdx' = bootIdx + 1
  /\ lastOp' = "BootSubscribe" /\ lastMsg' = NoMsg
  /\ UNCHANGED <<bgpPc, conn, connUp, dials, resubTodo, reconnecting, done,
                 results, dnsVars, now>>
  /\ UNCHANGED <<trafficVars, botVars>>
  /\ UNCHANGED <<lifeVars, handedOut>> /\ Wrote

\* NewMonitor: bgpClient.Start() launches the reader
BootStart ==
  /\ bgpPc = "boot"
  /\ bootIdx > Len(IranASNs)
  /\ bgpPc' = "read"
  /\ lastOp' = "BootStart" /\ lastMsg' = NoMsg
  /\ UNCHANGED <<bootIdx, conn, connUp, dials, subscribedASNs, asnStatuses,
                 framesSent, resubTodo, reconnecting, done, results, dnsVars, now>>
  /\ UNCHANGED <<trafficVars, botVars>>
  /\ UNCHANGED <<lifeVars, histVars>>

\* the peer or the network drops the socket
ConnDrop ==
  /\ bgpPc \in {"boot", "read", "resub"}
  /\ connUp
  /\ connUp' = FALSE
  /\ lastOp' = "ConnDrop" /\ lastMsg' = NoMsg
  /\ UNCHANGED <<bgpPc, bootIdx, conn, dials, subscribedASNs, asnStatuses,
                 framesSent, resubTodo, reconnecting, done, results, dnsVars, now>>
  /\ UNCHANGED <<trafficVars, botVars>>
  /\ UNCHANGED <<lifeVars, histVars>>

\* readMessages: ReadJSON returns an envelope, which is dispatched by type
ReadMessage ==
  /\ bgpPc = "read"
  /\ connUp
  /\ \E type \in {"ris_message", "ris_error"} :
       IF type = "ris_message"
       THEN \E update \in UpdateMsgs(now) :
              /\ handleRISMessage(update)
              /\ lastMsg' = update
              /\ lastOp' = "handleRISMessage"
       ELSE /\ asnStatuses' = asnStatuses
            /\ lastMsg' = NoMsg
            /\ lastOp' = "ris_error"
  /\ done' = done
  /\ bgpPc' = LoopTop
  /\ UNCHANGED <<bootIdx, conn, connUp, dials, subscribedASNs, framesSent,
                 resubTodo, reconnecting, results, dnsVars, now>>
  /\ UNCHANGED <<trafficVars, botVars>>
  /\ UNCHANGED <<lifeVars, handedOut>> /\ Wrote

\* readMessages: ReadJSON fails (closed socket, deadline, decode error) and
\* reconnect() begins: it closes the socket and sleeps before dialing
ReadError ==
  /\ bgpPc = "read"
  /\ ~reconnecting
  /\ reconnecting' = TRUE
  /\ connUp' = FALSE
  /\ bgpPc' = "redial"
  /\ lastOp' = "ReadError" /\ lastMsg' = NoMsg
  /\ UNCHANGED <<bootIdx, conn, dials, subscribedASNs, asnStatuses, framesSent,
                 resubTodo, done, results, dnsVars, now>>
  /\ UNCHANGED <<trafficVars, botVars>>
  /\ UNCHANGED <<lifeVars, histVars>>

\* RedialFail with the reader returning after a failed dial
RedialFail_GiveUp ==
  /\ bgpPc = "redial"
  /\ reconnecting' = FALSE
  /\ done' = done
  /\ bgpPc' = "exited"
  /\ lastOp' = "RedialFail" /\ lastMsg' = NoMsg
  /\ UNCHANGED <<bootIdx, conn, connUp, dials, subscribedASNs, asnStatuses,
                 framesSent, resubTodo, results, dnsVars, now>>
  /\ UNCHANGED <<trafficVars, botVars>>
  /\ UNCHANGED <<lifeVars, histVars>>

\* reconnect: the dial fails; readMessages sleeps and loops
RedialFail ==
  /\ bgpPc = "redial"
  /\ reconnecting' = FALSE
  /\ done' = done
  /\ bgpPc' = LoopTop
  /\ lastOp' = "RedialFail" /\ lastMsg' = NoMsg
  /\ UNCHANGED <<bootIdx, conn, connUp, dials, subscribedASNs, asnStatuses,
                 framesSent, resubTodo, results, dnsVars, now>>
  /\ UNCHANGED <<trafficVars, botVars>>
  /\ UNCHANGED <<lifeVars, histVars>>

\* reconnect: the dial succeeds, c.conn is replaced and the remembered
\* ASNs are collected for the resubscribe loop
RedialOk ==
  /\ bgpPc = "redial"
  /\ dials < MaxDials
  /\ dials' = dials + 1
  /\ conn' = dials + 1
  /\ connUp' = TRUE
  /\ resubTodo' = subscribedASNs
  /\ bgpPc' = "resub"
  /\ lastOp' = "RedialOk" /\ lastMsg' = NoMsg
  /\ UNCHANGED <<bootIdx, subscribedASNs, asnStatuses, framesSent, reconnecting,
                 done, results, dnsVars, now>>
  /\ UNCHANGED <<trafficVars, botVars>>
  /\ UNCHANGED <<lifeVars, histVars>>

\* reconnect: one iteration of the resubscribe loop
Resubscribe ==
  /\ bgpPc = "resub"
  /\ \E asn \in resubTodo :
       /\ SubscribeToASN(asn)
       /\ resubTodo' = resubTodo \ {asn}
  /\ lastOp' = "Resubscribe" /\ lastMsg' = NoMsg
  /\ UNCHANGED <<bgpPc, bootIdx, conn, connUp, dials, reconnecting, done,
                 results, dnsVars, now>>
  /\ UNCHANGED <<trafficVars, botVars>>
  /\ UNCHANGED <<lifeVars, handedOut>> /\ Wrote

\* reconnect returns nil; readMessages resets its counters and loops
ReconnectDone ==
  /\ bgpPc = "resub"
  /\ resubTodo = {}
  /\ reconnecting' = FALSE
  /\ done' = done
  /\ bgpPc' = LoopTop
  /\ lastOp' = "ReconnectDone" /\ lastMsg' = NoMsg
  /\ UNCHANGED <<bootIdx, conn, connUp, dials, subscribedASNs, asnStatuses,
                 framesSent, resubTodo, results, dnsVars, now>>
  /\ UNCHANGED <<trafficVars, botVars>>
  /\ UNCHANGED <<lifeVars, histVars>>

\* RISLiveClient.Stop: close(c.done) and close the socket
Stop ==
  /\ bgpPc \in {"read", "redial", "resub"}
  /\ ~done
  /\ done' = TRUE
  /\ connUp' = FALSE
  /\ lastOp' = "Stop" /\ lastMsg' = NoMsg
  /\ UNCHANGED <<bgpPc, bootIdx, conn, dials, subscribedASNs, asnStatuses,
                 framesSent, resubTodo, reconnecting, results, dnsVars, now>>
  /\ UNCHANGED <<trafficVars, botVars>>
  /\ UNCHANGED <<lifeVars, histVars>>

\* DNSMonitor.GetStatuses: the map a reader is handed, a copy of every record
GetStatusesCopy == [k \in DOMAIN statuses |-> statuses[k]]

\* the clock advances.  A probe round lasts at most 3 exchanges of 8 s plus
\* 300 ms of backoff, which is below the resolution of this clock.
Tick ==
  /\ ~roundActive
  /\ now + TickStep <= MaxTime
  /\ now' = now + TickStep
  /\ lastOp' = "Tick" /\ lastMsg' = NoMsg
  /\ UNCHANGED <<bgpVars, dnsVars>>
  /\ UNCHANGED <<trafficVars, botVars>>
  /\ UNCHANGED <<lifeVars, histVars>>

(***************************************************************************)
(* DNS: helpers                                                            *)
(***************************************************************************)
Servers == 1..Len(servers)

\* key := server.Address + ":" + server.Name
Key(srv) == <<srv.Address, srv.Name>>

\* error values client.Exchange returns ("nil" is no error)
ErrTimeout == "read udp: i/o timeout"
ErrShortRead == "dns: short read"
ErrUnpack == "dns: overflow unpacking uint16"

\* the substring patterns and net error types of isNetworkError
NetworkErrors == {ErrTimeout}
isNetworkError(err) == err # "nil" /\ err \in NetworkErrors

\* what one client.Exchange call can return: the rcode of the response
\* ("nil" when there is none) and the error.  miekg/dns hands back the
\* message together with an error when the reply does not unpack cleanly.
ExchangeOutcomes ==
  IF resolver = "silent"
  THEN { [r |-> "nil", err |-> ErrTimeout] }
  ELSE { [r |-> "NOERROR", err |-> "nil"],
         [r |-> "REFUSED", err |-> "nil"],
         [r |-> "NOERROR", err |-> ErrUnpack],
         [r |-> "nil", err |-> ErrTimeout],
         [r |-> "nil", err |-> ErrShortRead] }

\* Error strings are kept as <<prefix, detail>>; <<>> is the empty string
NoError == <<>>

\* the record NewDNSMonitor creates for a configured server
InitialDNSStatus(srv) ==
  [Server |-> srv.Address, Name |-> srv.Name, Alive |-> FALSE,
   ResponseTime |-> 0, LastCheck |-> ZeroTime, Error |-> NoError]

NoStatus ==
  [Server |-> "", Name |-> "", Alive |-> FALSE,
   ResponseTime |-> 0, LastCheck |-> ZeroTime, Error |-> NoError]

\* NewDNSMonitor: one record per configured server under its composite key
NewDNSMonitor(list) ==
  [k \in {Key(list[i]) : i \in 1..Len(list)} |->
     InitialDNSStatus(CHOOSE srv \in Range(list) : Key(srv) = k)]

IdleProbe == [pc |-> "idle", n |-> 0, r |-> "nil", err |-> "nil", own |-> NoStatus]

\* Classify leaving LastCheck at its zero value
Classify_Unstamped(srv, r, err, start, t) ==
  LET base == [Server |-> srv.Address, Name |-> srv.Name, Alive |-> FALSE,
               ResponseTime |-> t - start, LastCheck |-> ZeroTime, Error |-> NoError]
  IN IF err # "nil"
     THEN IF isNetworkError(err)
          THEN [base EXCEPT !.Alive = FALSE, !.Error = <<"Network error: ", err>>]
          ELSE [base EXCEPT !.Alive = FALSE, !.Error = <<"Error: ", err>>]
     ELSE IF r # "nil"
     THEN IF r # "NOERROR"
          THEN [base EXCEPT !.Alive = TRUE, !.Error = <<"DNS response: ", r>>]
          ELSE [base EXCEPT !.Alive = TRUE]
     ELSE [base EXCEPT !.Alive = FALSE,
                       !.Error = <<"DNS query returned nil response", "">>]

\* checkServer after its retry loop: the status built from r and err
Classify(srv, r, err, start, t) ==
  LET base == [Server |-> srv.Address, Name |-> srv.Name, Alive |-> FALSE,
               ResponseTime |-> t - start, LastCheck |-> t, Error |-> NoError]
  IN IF err # "nil"
     THEN IF isNetworkError(err)
          THEN [base EXCEPT !.Alive = FALSE, !.Error = <<"Network error: ", err>>]
          ELSE [base EXCEPT !.Alive = FALSE, !.Error = <<"Error: ", err>>]
     ELSE IF r # "nil"
     THEN IF r # "NOERROR"
          THEN [base EXCEPT !.Alive = TRUE, !.Error = <<"DNS response: ", r>>]
          ELSE [base EXCEPT !.Alive = TRUE]
     ELSE [base EXCEPT !.Alive = FALSE,
                       !.Error = <<"DNS query returned nil response", "">>]

\* LoopEnds without the break on errors that are not network errors
LoopEnds_RetryAnyError(attempt, r, err) ==
  \/ r # "nil"
  \/ attempt >= maxRetries

\* whether the retry loop of checkServer ends after an exchange that was
\* made with loop counter attempt and returned (r, err)
LoopEnds(attempt, r, err) ==
  \/ r # "nil"
  \/ (err # "nil" /\ ~isNetworkError(err))
  \/ attempt >= maxRetries

\* KeepsExisting for any failed status, whatever the stored record says
KeepsExisting_AnyFailed(store, key, status) ==
  key \in DOMAIN store /\ ~status.Alive

\* StoreStatus without the guard: the new status always replaces the record
StoreStatus_AlwaysReplace(store, key, status) ==
  [k \in DOMAIN store \cup {key} |-> IF k = key THEN status ELSE store[k]]

\* checkServer, the condition under which the stored object is kept and
\* returned in place of the new one
KeepsExisting(store, key, status) ==
  key \in DOMAIN store /\ store[key].Alive /\ ~status.Alive

\* checkServer, the section under dm.mu: a live stored record is not
\* replaced by a failed one, any other status is stored under its key
StoreStatus(store, key, status) ==
  IF KeepsExisting(store, key, status)
  THEN store
  ELSE [k \in DOMAIN store \cup {key} |-> IF k = key THEN status ELSE store[k]]

\* PublishRound where a result that is not newer than the stored record
\* resets the record instead of replacing it
PublishRound_ResetStale(store, res) ==
  [k \in DOMAIN store \cup DOMAIN res |->
     IF k \notin DOMAIN res THEN store[k]
     ELSE IF k \in DOMAIN store /\ store[k].LastCheck >= res[k].LastCheck
     THEN [res[k] EXCEPT !.Alive = FALSE, !.LastCheck = ZeroTime]
     ELSE res[k]]

\* CheckAll after wg.Wait(): dm.statuses[key] = status for every result
PublishRound(store, res) ==
  [k \in DOMAIN store \cup DOMAIN res |->
     IF k \in DOMAIN res THEN res[k] ELSE store[k]]

(***************************************************************************)
(* DNS: operations                                                         *)
(***************************************************************************)
\* CheckAll: one goroutine per configured server is launched
StartRound ==
  /\ ~roundActive
  /\ roundActive' = TRUE
  /\ probe' = [i \in Servers |-> [IdleProbe EXCEPT !.pc = "exchange"]]
  /\ roundResults' = <<>>
  /\ aliveIPs' = {}
  /\ roundStart' = now
  /\ preRound' = statuses
  /\ lastOp' = "StartRound" /\ lastMsg' = NoMsg
  /\ UNCHANGED <<servers, statuses, bgpVars, now>>
  /\ UNCHANGED <<trafficVars, botVars>>
  /\ UNCHANGED <<lifeVars, histVars>>

\* checkServer: one pass of the retry loop (backoff, then client.Exchange)
\* after which the loop continues
ExchangeRetry ==
  /\ roundActive
  /\ \E i \in Servers, o \in ExchangeOutcomes :
       /\ probe[i].pc = "exchange"
       /\ ~LoopEnds(probe[i].n, o.r, o.err)
       /\ probe' = [probe EXCEPT ![i].n = probe[i].n + 1,
                                 ![i].r = o.r, ![i].err = o.err]
  /\ lastOp' = "ExchangeRetry" /\ lastMsg' = NoMsg
  /\ UNCHANGED <<servers, statuses, roundResults, aliveIPs, roundActive, roundStart, preRound, bgpVars, now>>
  /\ UNCHANGED <<trafficVars, botVars>>
  /\ UNCHANGED <<lifeVars, histVars>>

\* checkServer: the pass of the retry loop that ends it, the classification
\* and the store under dm.mu.  A live stored record is not replaced by a
\* failed one; the pointer returned is always the object that
\* dm.statuses[key] holds afterwards.
CheckServerStore ==
  /\ roundActive
  /\ \E i \in Servers, o \in ExchangeOutcomes :
       /\ probe[i].pc = "exchange"
       /\ LoopEnds(probe[i].n, o.r, o.err)
       /\ LET srv == servers[i]
              key == Key(srv)
              status == Classify(srv, o.r, o.err, roundStart, now)
          IN /\ statuses' = StoreStatus(statuses, key, status)
             /\ handedOut' = IF KeepsExisting(statuses, key, status)
                             THEN handedOut ELSE handedOut \ {key}
             /\ probe' = [probe EXCEPT ![i] =
                  [pc |-> "merge", n |-> 0,
                   r |-> o.r, err |-> o.err, own |-> status]]
  /\ lastOp' = "CheckServerStore" /\ lastMsg' = NoMsg
  /\ UNCHANGED <<servers, roundResults, aliveIPs, roundActive, roundStart,
                 preRound, bgpVars, now>>
  /\ UNCHANGED <<trafficVars, botVars>>
  /\ UNCHANGED lifeVars /\ Wrote

\* CheckAll: the goroutine's section under the local mutex.  status is the
\* object stored in dm.statuses[key], so the upgrade is visible there at once.
CheckAllMerge ==
  /\ roundActive
  /\ \E i \in Servers :
       /\ probe[i].pc = "merge"
       /\ LET srv == servers[i]
              key == Key(srv)
              status == statuses[key]
              merged == IF ~status.Alive /\ srv.Address \in aliveIPs
                        THEN [status EXCEPT !.Alive = TRUE, !.Error = NoError]
                        ELSE status
          IN /\ statuses' = [statuses EXCEPT ![key] = merged]
             /\ aliveIPs' = IF merged.Alive THEN aliveIPs \cup {srv.Address}
                            ELSE aliveIPs
             /\ roundResults' = [k \in DOMAIN roundResults \cup {key} |->
                                   IF k = key THEN merged ELSE roundResults[k]]
             /\ probe' = [probe EXCEPT ![i].pc = "done"]
  /\ lastOp' = "CheckAllMerge" /\ lastMsg' = NoMsg
  /\ UNCHANGED <<servers, roundActive, roundStart, preRound,
                 bgpVars, now>>
  /\ UNCHANGED <<trafficVars, botVars>>
  /\ UNCHANGED <<lifeVars, handedOut>> /\ Wrote

\* CheckAll: after wg.Wait() the results are written to dm.statuses
CheckAllPublish ==
  /\ roundActive
  /\ \A i \in Servers : probe[i].pc = "done"
  /\ statuses' = PublishRound(statuses, roundResults)
  /\ roundActive' = FALSE
  /\ lastOp' = "CheckAllPublish" /\ lastMsg' = NoMsg
  /\ UNCHANGED <<servers, probe, roundResults, aliveIPs, roundStart, preRound, bgpVars, now>>
  /\ UNCHANGED <<trafficVars, botVars>>
  /\ handedOut' = handedOut \cup DOMAIN roundResults
  /\ UNCHANGED lifeVars /\ Wrote

(***************************************************************************)
(* Radar client (TrafficMonitor): float64 arithmetic                       *)
(*                                                                         *)
(* A float64 of the traffic computations is a pair <<n, d>>: with d > 0    *)
(* the number n/d in lowest terms, <<1, 0>> is +Inf, <<-1, 0>> is -Inf and *)
(* <<0, 0>> is NaN (what a division by zero gives).  Rounding is not       *)
(* modelled: the operations are exact.                                     *)
(***************************************************************************)
RECURSIVE GCD(_, _)
GCD(a, b) == IF b = 0 THEN a ELSE GCD(b, a % b)

Abs(x) == IF x < 0 THEN 0 - x ELSE x

Sign(x) == IF x > 0 THEN 1 ELSE IF x < 0 THEN 0 - 1 ELSE 0

Float(n, d) ==
  IF d = 0 THEN <<Sign(n), 0>>
  ELSE LET g == GCD(Abs(n), Abs(d))
       IN  <<(Sign(d) * n) \div g, Abs(d) \div g>>

F(n) == <<n, 1>>

NaN == <<0, 0>>

IsFinite(x) == x[2] # 0

FAdd(x, y) == Float(x[1] * y[2] + y[1] * x[2], x[2] * y[2])

FSub(x, y) == Float(x[1] * y[2] - y[1] * x[2], x[2] * y[2])

FMul(x, y) == Float(x[1] * y[1], x[2] * y[2])

\* x / y for a finite x: a zero divisor gives +Inf, -Inf or NaN
FDiv(x, y) == Float(x[1] * y[2], x[2] * y[1])

\* x > y for a finite y: false for NaN and -Inf, true for +Inf
FGt(x, y) ==
  IF x[2] = 0 THEN x[1] = 1 ELSE x[1] * y[2] > y[1] * x[2]

Rep(n, v) == [i \in 1..n |-> v]

RECURSIVE FSum(_, _)
\* values[1] + ... + values[n], added left to right
FSum(values, n) == IF n = 0 THEN F(0) ELSE FAdd(FSum(values, n - 1), values[n])

RECURSIVE FMax(_, _, _)
\* the running maximum of processData: starts at m, replaced when v > m
FMax(values, n, m) ==
  IF n = 0 THEN m
  ELSE LET p == FMax(values, n - 1, m)
       IN  IF FGt(values[n], p) THEN values[n] ELSE p

(***************************************************************************)
(* Radar client: pure helpers                                              *)
(***************************************************************************)
\* a timestamp string of a series is the second it denotes in RFC 3339, or
\* BadTimestamp for a string time.Parse rejects
BadTimestamp == 0 - 1

NilData == [IsNil |-> TRUE]

NoErr == "nil"

\* extractSeries on a decoded result: the serie it picks is found when it
\* has at least one value, with whatever timestamps came with it
extractSeries(result) ==
  [timestamps |-> result.timestamps, values |-> result.values,
   found |-> Len(result.values) > 0]

sliceLast24(timestamps, values) ==
  IF Len(values) <= Last24 \/ Len(timestamps) <= Last24
  THEN [timestamps |-> timestamps, values |-> values]
  ELSE LET start == Len(values) - Last24
       IN  IF Len(timestamps) > start
           THEN [timestamps |-> SubSeq(timestamps, start + 1, Len(timestamps)),
                 values |-> SubSeq(values, start + 1, Len(values))]
           ELSE [timestamps |-> timestamps,
                 values |-> SubSeq(values, start + 1, Len(values))]

determineStatus_Inclusive(current, base) ==
  LET ratio == FDiv(current, base)
  IN  IF FGt(ratio, Float(7, 10)) \/ ratio = Float(7, 10) THEN "Normal"
      ELSE IF FGt(ratio, Float(3, 10)) THEN "Degraded"
      ELSE IF FGt(ratio, Float(1, 10)) THEN "Throttled"
      ELSE "Shutdown"

determineStatus(current, base) ==
  LET ratio == FDiv(current, base)
  IN  IF FGt(ratio, Float(7, 10)) THEN "Normal"
      ELSE IF FGt(ratio, Float(3, 10)) THEN "Degraded"
      ELSE IF FGt(ratio, Float(1, 10)) THEN "Throttled"
      ELSE "Shutdown"

\* the local baselinePercent of processData
baselinePercent_WholeTrend(trend) ==
  IF Len(trend) >= BaselineCount
  THEN FDiv(FSum(trend, Len(trend)), F(Len(trend)))
  ELSE F(100)

baselinePercent(trend) ==
  IF Len(trend) > BaselineCount
  THEN FDiv(FSum(trend, BaselineCount), F(BaselineCount))
  ELSE F(100)

\* tm.baseline after processData: set once, from the first half of the values
newBaseline(values, base) ==
  IF base = F(100) /\ Len(values) > BaselineCount
  THEN FDiv(FSum(values, Len(values) \div 2), F(Len(values) \div 2))
  ELSE base

\* the timestamps of the sample: the parsed ones when every one parses and
\* there is one per value, otherwise generated backwards from now by the hour
timesList(values, timestamps, t) ==
  LET parsed == SelectSeq(timestamps, LAMBDA ts : ts # BadTimestamp)
  IN  IF Len(timestamps) = Len(values) /\ Len(parsed) = Len(values)
      THEN parsed
      ELSE [i \in 1..Len(values) |-> t - 3600 * (Len(values) - i)]

\* processData for a non-empty values (its callers pass nothing else)
processData(values, timestamps, t) ==
  LET maxVal == FMax(values, Len(values), F(1))
      trend == [i \in 1..Len(values) |-> FMul(FDiv(values[i], maxVal), F(100))]
      currentLevel == trend[Len(trend)]
      base == baselinePercent(trend)
  IN  [IsNil |-> FALSE,
       CurrentLevel |-> currentLevel,
       Trend24h |-> trend,
       Timestamps |-> timesList(values, timestamps, t),
       ChangePercent |-> FMul(FDiv(FSub(currentLevel, base), base), F(100)),
       Status |-> determineStatus(currentLevel, base),
       LastUpdate |-> t]

\* fetchWithURL: the retry request; ok only for a success body with a series
fetchWithURL(resp, t) ==
  IF resp.kind = "ok" /\ extractSeries(resp).found
  THEN LET s == sliceLast24(resp.timestamps, resp.values)
       IN  [data |-> processData(s.values, s.timestamps, t), ok |-> TRUE,
            values |-> s.values]
  ELSE [data |-> NilData, ok |-> FALSE, values |-> <<>>]

\* FetchFromCloudflare as a function of the response to the IR request and,
\* where a second request is made, of the response to the IRN request:
\* what it returns, the requests it issued, whether it stores its sample in
\* the cache, and the values it handed to processData
FetchFromCloudflare_NoRetry(resp, retry, t) ==
  LET failed(e, reqs) == [data |-> NilData, err |-> e, requests |-> reqs,
                          store |-> FALSE, values |-> <<>>]
  IN  CASE resp.kind = "io_error" -> failed("io error", <<"IR">>)
        [] resp.kind = "status" -> failed("cloudflare API status", <<"IR">>)
        [] resp.kind = "unparseable" -> failed("invalid character", <<"IR">>)
        [] resp.kind = "not_success" ->
             failed("cloudflare API returned success=false", <<"IR">>)
        [] OTHER ->
             IF ~extractSeries(resp).found
             THEN failed("no traffic data in response", <<"IR">>)
             ELSE LET s == sliceLast24(resp.timestamps, resp.values)
                  IN  [data |-> processData(s.values, s.timestamps, t),
                       err |-> NoErr, requests |-> <<"IR">>, store |-> TRUE,
                       values |-> s.values]

FetchFromCloudflare(resp, retry, t) ==
  LET failed(e, reqs) == [data |-> NilData, err |-> e, requests |-> reqs,
                          store |-> FALSE, values |-> <<>>]
  IN  CASE resp.kind = "io_error" -> failed("io error", <<"IR">>)
        [] resp.kind = "status" -> failed("cloudflare API status", <<"IR">>)
        [] resp.kind = "unparseable" -> failed("invalid character", <<"IR">>)
        [] resp.kind = "not_success" ->
             failed("cloudflare API returned success=false", <<"IR">>)
        [] OTHER ->
             IF ~extractSeries(resp).found
             THEN LET again == fetchWithURL(retry, t)
                  IN  IF again.ok
                      THEN [data |-> again.data, err |-> NoErr,
                            requests |-> <<"IR", "IRN">>, store |-> FALSE,
                            values |-> again.values]
                      ELSE failed("no traffic data in response", <<"IR", "IRN">>)
             ELSE LET s == sliceLast24(resp.timestamps, resp.values)
                  IN  [data |-> processData(s.values, s.timestamps, t),
                       err |-> NoErr, requests |-> <<"IR">>, store |-> TRUE,
                       values |-> s.values]

(***************************************************************************)
(* Radar client: inputs (what the Radar service may answer)                *)
(***************************************************************************)
Hours(n) == [i \in 1..n |-> 3600 * i]

Serie(values, timestamps) ==
  [kind |-> "ok", timestamps |-> timestamps, values |-> values]

\* series of one, two, 12, 13, 24 and MaxSeriesLen values: a last value at
\* the Normal threshold, a negative value, a timestamp that does not parse,
\* twelve hours without traffic before an hour with some, and a long series
\* with and without timestamps
Series ==
  { Serie(<<F(7)>>, Hours(1)),
    Serie(<<F(10), F(7)>>, Hours(2)),
    Serie(<<F(10), F(0 - 5)>>, Hours(2)),
    Serie(<<F(4), F(4)>>, <<3600, BadTimestamp>>),
    Serie(Rep(BaselineCount - 1, F(10)) \o <<F(7)>>, Hours(BaselineCount)),
    Serie(Rep(BaselineCount, F(5)) \o <<F(10)>>, Hours(BaselineCount + 1)),
    Serie(Rep(BaselineCount, F(0)) \o <<F(10)>>, Hours(BaselineCount + 1)),
    Serie(Rep(Last24, F(100)), Hours(Last24)),
    Serie(<<F(1)>> \o Rep(MaxSeriesLen - 1, F(2)), Hours(MaxSeriesLen)),
    Serie(<<F(1)>> \o Rep(MaxSeriesLen - 1, F(2)), <<>>) }

EmptySerie == Serie(<<>>, <<>>)

Failure(kind) == [kind |-> kind, timestamps |-> <<>>, values |-> <<>>]

\* every answer the client tells apart: the four failures, a success body
\* without a series, and a success body with one of the series
AllResponses ==
  {Failure("io_error"), Failure("status"), Failure("unparseable"),
   Failure("not_success"), EmptySerie} \cup Series

\* the service refuses every request (no credentials are configured)
Refusing == {Failure("status")}

\* a service that is down at times and has the one-value series otherwise
Plain == {Failure("io_error"), Serie(<<F(7)>>, Hours(1))}

\* the responses the service of this run may give
RadarResponses ==
  CASE radar = "refusing" -> Refusing
    [] radar = "plain" -> Plain
    [] OTHER -> AllResponses

\* the response to the IRN request matters only when that request is made
RetryResponses(resp) ==
  IF resp = EmptySerie THEN RadarResponses ELSE {resp}

(***************************************************************************)
(* Radar client: operations                                                *)
(***************************************************************************)
\* tm.cachedData and tm.lastUpdate after a FetchFromCloudflare call
CacheAfter_ClearOnError(out, t) ==
  IF out.store THEN [cachedData |-> out.data, lastUpdate |-> t]
  ELSE [cachedData |-> NilData, lastUpdate |-> ZeroTime]

CacheAfter(out, t) ==
  IF out.store THEN [cachedData |-> out.data, lastUpdate |-> t]
  ELSE [cachedData |-> cachedData, lastUpdate |-> lastUpdate]

\* FetchFromCloudflare tabulated, once, over the long-running inputs of the
\* Radar client's own specification: what it returns for each pair of
\* responses at each instant a call can be made there
FetchTimes == {t \in 0..MaxFreshTime : t % FreshStep = 0}

FetchInputs ==
  {x \in AllResponses \X AllResponses : x[1] # EmptySerie => x[2] = x[1]}

Fetched ==
  [x \in FetchInputs \X FetchTimes |->
     FetchFromCloudflare(x[1][1], x[1][2], x[2])] @@ <<>>

FetchOutcome(resp, retry, t) ==
  IF <<<<resp, retry>>, t>> \in DOMAIN Fetched
  THEN Fetched[<<<<resp, retry>>, t>>]
  ELSE FetchFromCloudflare(resp, retry, t)

\* the effect of one FetchFromCloudflare call on the TrafficMonitor
Fetch(resp, retry) ==
  LET out == FetchOutcome(resp, retry, now)
  IN  /\ cachedData' = CacheAfter(out, now).cachedData
      /\ lastUpdate' = CacheAfter(out, now).lastUpdate
      /\ baseline' = IF out.values = <<>> THEN baseline
                     ELSE newBaseline(out.values, baseline)
      /\ requests' = out.requests
      /\ trafficRet' = [data |-> out.data, err |-> out.err]

\* the cache test of GetTrafficData
IsFresh_Inclusive(t) == cachedData # NilData /\ t - lastUpdate <= FreshTTL

IsFresh(t) == cachedData # NilData /\ t - lastUpdate < FreshTTL

\* the effect of one GetTrafficData call
GetTrafficData_StaleOnError(resp, retry) ==
  IF IsFresh(now)
  THEN /\ trafficRet' = [data |-> cachedData, err |-> NoErr]
       /\ requests' = <<>>
       /\ UNCHANGED <<cachedData, lastUpdate, baseline>>
  ELSE LET out == FetchOutcome(resp, retry, now)
       IN  /\ cachedData' = CacheAfter(out, now).cachedData
           /\ lastUpdate' = CacheAfter(out, now).lastUpdate
           /\ baseline' = IF out.values = <<>> THEN baseline
                          ELSE newBaseline(out.values, baseline)
           /\ requests' = out.requests
           /\ trafficRet' = [data |-> IF out.err = NoErr THEN out.data
                                      ELSE cachedData,
                             err |-> out.err]

GetTrafficData(resp, retry) ==
  IF IsFresh(now)
  THEN /\ trafficRet' = [data |-> cachedData, err |-> NoErr]
       /\ requests' = <<>>
       /\ UNCHANGED <<cachedData, lastUpdate, baseline>>
  ELSE Fetch(resp, retry)

\* the traffic monitor's own ticker (Start) and the boot sequence
\* (PerformInitialCheck) call FetchFromCloudflare directly
PeriodicFetch ==
  /\ \E resp \in RadarResponses :
       \E retry \in RetryResponses(resp) : Fetch(resp, retry)
  /\ lastOp' = "FetchFromCloudflare"
  /\ UNCHANGED <<bgpVars, dnsVars, botVars, radar, charts, now, lastMsg>>
  /\ UNCHANGED <<lifeVars, handedOut>> /\ Wrote

GetTrafficDataCall ==
  /\ IF IsFresh(now)
     THEN GetTrafficData(EmptySerie, EmptySerie)
     ELSE \E resp \in RadarResponses :
            \E retry \in RetryResponses(resp) :
              GetTrafficData(resp, retry)
  /\ lastOp' = "GetTrafficData"
  /\ UNCHANGED <<bgpVars, dnsVars, botVars, radar, charts, now, lastMsg>>
  /\ UNCHANGED <<lifeVars, handedOut>> /\ Wrote

\* time passes between two calls of the Radar client
TrafficTick ==
  /\ now + FreshStep <= MaxFreshTime
  /\ now' = now + FreshStep
  /\ lastOp' = "tick"
  /\ UNCHANGED <<bgpVars, dnsVars, trafficVars, botVars, lastMsg>>
  /\ UNCHANGED <<lifeVars, histVars>>

(***************************************************************************)
(* Monitor: the merged snapshot                                            *)
(***************************************************************************)
\* FetchASNTrafficFromCloudflare and GenerateASNTrafficChart, as seen by
\* updateResults: no list (an error, or no ASN data), or a list whose items
\* share one chart buffer
ASNTrafficOutcomes ==
  IF "asn" \in charts THEN {<<[ASN |-> AS7, ChartBuffer |-> TRUE]>>} ELSE {<<>>}

\* GenerateTrafficChart, as seen by updateResults: a buffer, or an error
ChartOutcomes == {"country" \in charts}

\* models.TrafficData built by updateResults; ChartBuffer tells whether
\* GenerateTrafficChart produced a buffer
TrafficModelData(data, chartOk) ==
  IF data = NilData THEN NilData
  ELSE [IsNil |-> FALSE,
        CurrentLevel |-> data.CurrentLevel,
        Trend24h |-> data.Trend24h,
        Timestamps |-> data.Timestamps,
        ChangePercent |-> data.ChangePercent,
        Status |-> data.Status,
        ChartBuffer |-> chartOk,
        LastUpdate |-> data.LastUpdate]

\* NewMonitor has returned: the monitor, and the bot built after it, exist
MonitorUp == bgpPc \in {"read", "redial", "resub", "exited"}

\* the object a fresh &models.MonitoringResult{...} lives in: one that the
\* publication loop does not hold
NewResultRef_InPlace == resultsRef

NewResultRef == IF pubResult.ref = 1 THEN 2 ELSE 1

\* what the holder of a pointer sees after the object at ref was written
SeenThrough(held, ref, val) ==
  IF held.ref = ref THEN [held EXCEPT !.val = val] ELSE held

\* Monitor.updateResults
updateResults(resp, retry, chartOk, asnTraffic) ==
  /\ GetTrafficData(resp, retry)
  /\ results' = [Timestamp |-> now,
                 ASNStatuses |-> CheckConnectivity(now),
                 DNSStatuses |-> GetStatusesCopy,
                 TrafficData |-> TrafficModelData(trafficRet'.data, chartOk),
                 ASTrafficData |-> asnTraffic]
  /\ resultsRef' = NewResultRef

\* updateResults with everything the Radar service and the chart renderer
\* may do during the call
UpdateResultsAny ==
  \E resp \in (IF IsFresh(now) THEN {EmptySerie} ELSE RadarResponses) :
    \E retry \in RetryResponses(resp) :
      \E chartOk \in ChartOutcomes, asnTraffic \in ASNTrafficOutcomes :
        updateResults(resp, retry, chartOk, asnTraffic)

\* Monitor.GetResults: updateResults rebuilds m.results, which is returned
GetResults ==
  /\ MonitorUp
  /\ UpdateResultsAny
  /\ pubResult' = SeenThrough(pubResult, resultsRef', results')
  /\ lastOp' = "GetResults" /\ lastMsg' = NoMsg
  /\ UNCHANGED <<bgpPc, bootIdx, conn, connUp, dials, subscribedASNs,
                 asnStatuses, framesSent, resubTodo, reconnecting, done,
                 dnsVars, now, radar, charts>>
  /\ UNCHANGED <<tickVars, chatVars>>
  /\ snapHist' = [prev |-> IF snapHist.dirty THEN NoSnapshot ELSE results,
                   dirty |-> FALSE]
  /\ UNCHANGED <<lifeVars, handedOut>>

(***************************************************************************)
(* Telegram bot: helpers                                                   *)
(***************************************************************************)
Chats == {"101"}

NoResult == [ref |-> 0, val |-> <<>>]

\* strconv.Atoi on a string given as its characters: an optional sign and
\* then digits only
RECURSIVE DigitsValue(_)
DigitsValue(s) ==
  IF s = <<>> THEN 0
  ELSE 10 * DigitsValue(SubSeq(s, 1, Len(s) - 1))
       + ((CHOOSE i \in 1..10 : DigitChars[i] = s[Len(s)]) - 1)

Atoi(s) ==
  LET signed == s # <<>> /\ s[1] \in {"+", "-"}
      digits == IF signed THEN Tail(s) ELSE s
  IN  IF digits = <<>> \/ \E i \in 1..Len(digits) : digits[i] \notin Range(DigitChars)
      THEN [ok |-> FALSE, n |-> 0]
      ELSE [ok |-> TRUE,
            n |-> IF signed /\ s[1] = "-" THEN 0 - DigitsValue(digits)
                  ELSE DigitsValue(digits)]

\* the messages a user may send: /start, /status and /interval <argument>
Texts ==
  { [cmd |-> "/start", arg |-> <<>>], [cmd |-> "/status", arg |-> <<>>] }
  \cup { [cmd |-> "/interval", arg |-> a] :
           a \in { <<"1">>, <<"2">>, <<"0">>, <<"-", "1">>, <<"x">> } }

\* sendStatusMessages: the messages handed to the chat API for one target,
\* in the order of the calls, each with the part of the result it shows
sendStatusMessages_ChartFirst(chatID, result) ==
  (IF result.TrafficData # NilData /\ result.TrafficData.ChartBuffer
   THEN << [kind |-> "chart", body |-> result.TrafficData] >> ELSE <<>>)
  \o << [kind |-> "header", body |-> result.Timestamp],
        [kind |-> "asn", body |-> result.ASNStatuses],
        [kind |-> "dns", body |-> result.DNSStatuses] >>
  \o (IF result.ASTrafficData # <<>> /\ result.ASTrafficData[1].ChartBuffer
      THEN << [kind |-> "asn_chart", body |-> result.ASTrafficData] >> ELSE <<>>)

sendStatusMessages(chatID, result) ==
  << [kind |-> "header", body |-> result.Timestamp],
     [kind |-> "asn", body |-> result.ASNStatuses],
     [kind |-> "dns", body |-> result.DNSStatuses] >>
  \o (IF result.TrafficData # NilData /\ result.TrafficData.ChartBuffer
      THEN << [kind |-> "chart", body |-> result.TrafficData] >> ELSE <<>>)
  \o (IF result.ASTrafficData # <<>> /\ result.ASTrafficData[1].ChartBuffer
      THEN << [kind |-> "asn_chart", body |-> result.ASTrafficData] >> ELSE <<>>)

\* one call of sendStatusMessages as it is remembered: the target, the
\* result the pointer led to, and the messages
Publication(chatID, result) ==
  [target |-> chatID, result |-> result, msgs |-> sendStatusMessages(chatID, result)]

NoReply == [target |-> "", result |-> <<>>, msgs |-> <<>>]

\* ChannelDue measured against the subscribers' interval
ChannelDue_UserInterval(t) ==
  /\ channelID # ""
  /\ (lastChannelUpdateTime = ZeroTime \/ t - lastChannelUpdateTime >= updateInterval)

\* the tests the publication loop makes on a tick handled at time t
ChannelDue(t) ==
  /\ channelID # ""
  /\ (lastChannelUpdateTime = ZeroTime \/ t - lastChannelUpdateTime >= ChannelInterval)

UserDue(t) == t - lastUpdateTime >= updateInterval

\* a tick at time t on which the loop finds nothing to do
Idle(t) ==
  /\ updateInterval = lastInterval
  /\ ~ChannelDue(t)
  /\ ~(UserDue(t) /\ subscribedChats # {})

\* the instants at which the loop next has something to send
DueTimes ==
  {lastUpdateTime + lastInterval, lastChannelUpdateTime + ChannelInterval}

\* how long the loop waits for the tick it handles next: one second, or the
\* whole seconds until an instant something is due, or until the second
\* before it, when every tick in between finds nothing to do
Waits ==
  {1} \cup {w \in {d - now : d \in DueTimes} \cup {d - 1 - now : d \in DueTimes} :
              w > 1 /\ \A j \in 1..(w - 1) : Idle(now + j)}

(***************************************************************************)
(* Telegram bot: the publication loop (SendPeriodicUpdates)                *)
(***************************************************************************)
\* a tick of checkTicker is received and the handler runs up to the point
\* where it decides whether anything is to be sent
CheckTick ==
  /\ MonitorUp
  /\ pubPc = "wait"
  /\ ticks < MaxTicks
  /\ \E k \in (IF tickPending THEN {0} ELSE Waits) :
       LET t == now + k
           currentInterval == updateInterval
           timeSinceLastUpdate == t - lastUpdateTime
           channelDue == ChannelDue(t)
           userDue == timeSinceLastUpdate >= currentInterval /\ subscribedChats # {}
       IN  /\ now' = t
           /\ tickStart' = t
           /\ lastInterval' = currentInterval
           /\ lastUpdateTime' =
                IF currentInterval = lastInterval THEN lastUpdateTime
                ELSE IF timeSinceLastUpdate >= currentInterval THEN ZeroTime
                ELSE t
           /\ shouldSendChannelUpdate' = channelDue
           /\ shouldSendUserUpdate' = userDue
           /\ pubPc' = IF channelDue \/ userDue THEN "snapshot" ELSE "wait"
  /\ tickPending' = FALSE
  /\ ticks' = ticks + 1
  /\ sent' = <<>>
  /\ tickSnapshot' = <<>>
  /\ lastOp' = "CheckTick" /\ lastMsg' = NoMsg
  /\ UNCHANGED <<bgpVars, dnsVars, trafficVars, chatVars, heapVars, usersTodo,
                 lastChannelUpdateTime>>
  /\ UNCHANGED <<lifeVars, histVars>>

\* result, err := b.onStatusUpdate(): the tick's snapshot is taken
TakeSnapshot ==
  /\ pubPc = "snapshot"
  /\ UpdateResultsAny
  /\ pubResult' = [ref |-> resultsRef', val |-> results']
  /\ tickSnapshot' = results'
  /\ pubPc' = IF shouldSendChannelUpdate THEN "channel" ELSE "users"
  /\ usersTodo' = IF shouldSendChannelUpdate THEN {} ELSE subscribedChats
  /\ lastOp' = "TakeSnapshot" /\ lastMsg' = NoMsg
  /\ UNCHANGED <<bgpPc, bootIdx, conn, connUp, dials, subscribedASNs,
                 asnStatuses, framesSent, resubTodo, reconnecting, done,
                 dnsVars, now, radar, charts, chatVars>>
  /\ UNCHANGED <<lastInterval, lastUpdateTime, lastChannelUpdateTime,
                 shouldSendChannelUpdate, shouldSendUserUpdate, sent,
                 tickPending, tickStart, ticks>>
  /\ UNCHANGED <<lifeVars, handedOut>> /\ Wrote

\* the channel branch: sendStatusMessages(b.channelID, result)
SendChannel ==
  /\ pubPc = "channel"
  /\ sent' = Append(sent, Publication(channelID, pubResult.val))
  /\ lastChannelUpdateTime' = now
  /\ pubPc' = IF shouldSendUserUpdate THEN "users" ELSE "wait"
  /\ usersTodo' = IF shouldSendUserUpdate THEN subscribedChats ELSE {}
  /\ pubResult' = IF shouldSendUserUpdate THEN pubResult ELSE NoResult
  /\ lastOp' = "SendChannel" /\ lastMsg' = NoMsg
  /\ UNCHANGED <<bgpVars, dnsVars, trafficVars, chatVars, resultsRef, now>>
  /\ UNCHANGED <<lastInterval, lastUpdateTime, shouldSendChannelUpdate,
                 shouldSendUserUpdate, tickPending, tickStart, ticks, tickSnapshot>>
  /\ UNCHANGED <<lifeVars, histVars>>

\* the subscriber branch: one iteration of the loop over the chats
SendUser ==
  /\ pubPc = "users"
  /\ \E chatID \in usersTodo :
       /\ sent' = Append(sent, Publication(chatID, pubResult.val))
       /\ usersTodo' = usersTodo \ {chatID}
  /\ awaiting' = FALSE
  /\ lastOp' = "SendUser" /\ lastMsg' = NoMsg
  /\ UNCHANGED <<bgpVars, dnsVars, trafficVars, heapVars, now>>
  /\ UNCHANGED <<updateInterval, subscribedChats, channelID, reply, changeAt,
                 handled>>
  /\ UNCHANGED <<pubPc, lastInterval, lastUpdateTime, lastChannelUpdateTime,
                 shouldSendChannelUpdate, shouldSendUserUpdate, tickPending,
                 tickStart, ticks, tickSnapshot>>
  /\ UNCHANGED <<lifeVars, histVars>>

\* the subscriber branch ends: lastUpdateTime = time.Now()
UsersDone ==
  /\ pubPc = "users"
  /\ usersTodo = {}
  /\ lastUpdateTime' = now
  /\ pubPc' = "wait"
  /\ pubResult' = NoResult
  /\ lastOp' = "UsersDone" /\ lastMsg' = NoMsg
  /\ UNCHANGED <<bgpVars, dnsVars, trafficVars, chatVars, resultsRef, now>>
  /\ UNCHANGED <<lastInterval, lastChannelUpdateTime, shouldSendChannelUpdate,
                 shouldSendUserUpdate, usersTodo, sent, tickPending, tickStart,
                 ticks, tickSnapshot>>
  /\ UNCHANGED <<lifeVars, histVars>>

\* a second passes while the handler is busy (the snapshot's HTTP requests,
\* the calls of the chat API); the ticker keeps at most one tick for it
PublishDelay ==
  /\ pubPc # "wait"
  /\ now - tickStart < MaxPublishDelay
  /\ now' = now + 1
  /\ tickPending' = TRUE
  /\ lastOp' = "PublishDelay" /\ lastMsg' = NoMsg
  /\ UNCHANGED <<bgpVars, dnsVars, trafficVars, chatVars, heapVars>>
  /\ UNCHANGED <<pubPc, lastInterval, lastUpdateTime, lastChannelUpdateTime,
                 shouldSendChannelUpdate, shouldSendUserUpdate, usersTodo, sent,
                 tickStart, ticks, tickSnapshot>>
  /\ UNCHANGED <<lifeVars, histVars>>

(***************************************************************************)
(* Telegram bot: the message handlers (handleMessage, one goroutine each)  *)
(***************************************************************************)
\* /start: the chat is remembered and the welcome text is sent
HandleStartFrom(chats, budget) ==
  /\ MonitorUp
  /\ handled < budget
  /\ handled' = handled + 1
  /\ \E chatID \in chats : subscribedChats' = subscribedChats \cup {chatID}
  /\ lastOp' = "sendWelcome" /\ lastMsg' = NoMsg
  /\ UNCHANGED <<bgpVars, dnsVars, trafficVars, tickVars, heapVars, now>>
  /\ UNCHANGED <<updateInterval, channelID, reply, changeAt, awaiting>>
  /\ UNCHANGED <<lifeVars, histVars>>

HandleStart == HandleStartFrom(Chats, MaxMessages)

\* /status: sendStatus takes a snapshot of its own and sends it to the chat
HandleStatus ==
  /\ MonitorUp
  /\ handled < MaxMessages
  /\ handled' = handled + 1
  /\ UpdateResultsAny
  /\ pubResult' = SeenThrough(pubResult, resultsRef', results')
  /\ \E chatID \in Chats :
       /\ subscribedChats' = subscribedChats \cup {chatID}
       /\ reply' = Publication(chatID, results')
  /\ lastOp' = "sendStatus" /\ lastMsg' = NoMsg
  /\ UNCHANGED <<bgpPc, bootIdx, conn, connUp, dials, subscribedASNs,
                 asnStatuses, framesSent, resubTodo, reconnecting, done,
                 dnsVars, now, radar, charts, tickVars>>
  /\ UNCHANGED <<updateInterval, channelID, changeAt, awaiting>>
  /\ UNCHANGED <<lifeVars, handedOut>> /\ Wrote

\* /interval <argument>: handleSetInterval
handleSetInterval(intervalStr) ==
  LET minutes == Atoi(intervalStr)
  IN  IF ~minutes.ok \/ minutes.n < 1
      THEN UNCHANGED <<updateInterval, changeAt, awaiting>>
      ELSE /\ updateInterval' = minutes.n * Minute
           /\ IF minutes.n * Minute = updateInterval
              THEN UNCHANGED <<changeAt, awaiting>>
              ELSE changeAt' = now /\ awaiting' = TRUE

HandleSetIntervalFrom(chats, budget) ==
  /\ MonitorUp
  /\ handled < budget
  /\ handled' = handled + 1
  /\ \E chatID \in chats : subscribedChats' = subscribedChats \cup {chatID}
  /\ \E text \in Texts : text.cmd = "/interval" /\ handleSetInterval(text.arg)
  /\ lastOp' = "handleSetInterval" /\ lastMsg' = NoMsg
  /\ UNCHANGED <<bgpVars, dnsVars, trafficVars, tickVars, heapVars, now>>
  /\ UNCHANGED <<channelID, reply>>
  /\ UNCHANGED <<lifeVars, histVars>>

HandleSetInterval == HandleSetIntervalFrom(Chats, MaxMessages)

(***************************************************************************)
(* Specifications                                                          *)
(***************************************************************************)
Init ==
  /\ bgpPc = "dial"
  /\ bootIdx = 1
  /\ conn = 0
  /\ connUp = FALSE
  /\ dials = 0
  /\ subscribedASNs = {}
  /\ asnStatuses = <<>>
  /\ framesSent = {}
  /\ resubTodo = {}
  /\ reconnecting = FALSE
  /\ done = FALSE
  /\ results = [Timestamp |-> 0, ASNStatuses |-> <<>>, DNSStatuses |-> <<>>,
                TrafficData |-> NilData, ASTrafficData |-> <<>>]
  /\ resultsRef = 1
  /\ servers \in DNSServers \cup {SingleServer}
  /\ statuses = NewDNSMonitor(servers)
  /\ probe = [i \in 1..Len(servers) |-> IdleProbe]
  /\ roundResults = <<>>
  /\ aliveIPs = {}
  /\ roundActive = FALSE
  /\ roundStart = 0
  /\ preRound = <<>>
  /\ now = 0
  /\ lastOp = "init"
  /\ lastMsg = NoMsg
  /\ radar \in {"refusing", "plain", "any"}
  /\ charts \in SUBSET {"country", "asn"}
  /\ cachedData = NilData
  /\ lastUpdate = ZeroTime
  /\ baseline = F(100)
  /\ requests = <<>>
  /\ trafficRet = [data |-> NilData, err |-> NoErr]
  /\ updateInterval = cfgInterval
  /\ subscribedChats = {}
  /\ channelID \in Channels
  /\ reply = NoReply
  /\ changeAt = 0
  /\ awaiting = FALSE
  /\ handled = 0
  /\ pubPc = "wait"
  /\ lastInterval = cfgInterval
  /\ lastUpdateTime = 0
  /\ lastChannelUpdateTime = ZeroTime
  /\ shouldSendChannelUpdate = FALSE
  /\ shouldSendUserUpdate = FALSE
  /\ pubResult = NoResult
  /\ usersTodo = {}
  /\ sent = <<>>
  /\ tickSnapshot = <<>>
  /\ tickPending = FALSE
  /\ tickStart = 0
  /\ ticks = 0
  /\ fileASNs \in ConfigFiles
  /\ ctxDone = FALSE
  /\ tasks = [l \in Loops |-> "unstarted"]
  /\ process = "running"
  /\ resolver \in {"any", "silent"}
  /\ snapHist = NoHist
  /\ handedOut = {}

\* the BGP subscriber, the clock and snapshot readers
NextBGP ==
  \/ DialOk \/ DialFail \/ BootSubscribe \/ BootStart \/ ConnDrop
  \/ ReadMessage \/ ReadError \/ RedialFail \/ RedialOk \/ Resubscribe
  \/ ReconnectDone \/ Stop \/ GetResults \/ Tick

InitBGP ==
  /\ Init /\ servers = SharedAddress /\ fileASNs = GetDefaultIranianASNs
  /\ resolver = "any"
  /\ radar = "refusing" /\ charts = {} /\ channelID = ""

SpecBGP == InitBGP /\ [][NextBGP]_vars

\* the steps of the subscriber's own code: the boot loop of NewMonitor and
\* the reader goroutine with its reconnect
SubscriberStep ==
  \/ BootSubscribe \/ BootStart
  \/ ReadError \/ RedialFail \/ RedialOk \/ Resubscribe \/ ReconnectDone

\* SpecBGP with the subscriber's code scheduled: it does not stop while one
\* of its steps can be taken
FairBGP == InitBGP /\ [][NextBGP]_vars /\ WF_vars(SubscriberStep)

\* the DNS prober, the clock and snapshot readers
NextDNS ==
  \/ StartRound \/ ExchangeRetry \/ CheckServerStore \/ CheckAllMerge
  \/ CheckAllPublish \/ Tick

InitDNS ==
  /\ Init /\ servers \in DNSServers /\ fileASNs = GetDefaultIranianASNs
  /\ resolver = "any"
  /\ radar = "refusing" /\ charts = {} /\ channelID = ""

SpecDNS == InitDNS /\ [][NextDNS]_vars

\* the Radar client alone: fetches, cached reads and the clock
NextTraffic == PeriodicFetch \/ GetTrafficDataCall \/ TrafficTick

InitTraffic ==
  /\ Init /\ servers = SharedAddress /\ fileASNs = GetDefaultIranianASNs
  /\ resolver = "any"
  /\ radar = "any" /\ charts = {} /\ channelID = ""

SpecTraffic == InitTraffic /\ [][NextTraffic]_vars

\* the bot beside a booted monitor: the publication loop and the message
\* handlers, with no BGP update arriving and the DNS prober at rest with no
\* live server
NextPub ==
  \/ DialOk \/ BootSubscribe \/ BootStart
  \/ CheckTick \/ TakeSnapshot \/ SendChannel \/ SendUser \/ UsersDone
  \/ PublishDelay \/ HandleStart \/ HandleStatus \/ HandleSetInterval

InitPub ==
  /\ Init /\ servers = SharedAddress /\ fileASNs = GetDefaultIranianASNs
  /\ resolver = "any"
  /\ radar = "plain" /\ charts \in {{}, {"country", "asn"}}

SpecPub == InitPub /\ [][NextPub]_vars

\* two users talking to the bot
TwoChats == {"101", "202"}

\* the publication loop without a channel, with two users who may send
\* /start and /interval, one message more than both need to subscribe
NextCadence ==
  \/ DialOk \/ BootSubscribe \/ BootStart
  \/ CheckTick \/ TakeSnapshot \/ SendUser \/ UsersDone
  \/ PublishDelay
  \/ HandleStartFrom(TwoChats, MaxMessages + 1)
  \/ HandleSetIntervalFrom(TwoChats, MaxMessages + 1)

InitCadence ==
  /\ Init /\ servers = SharedAddress /\ fileASNs = GetDefaultIranianASNs
  /\ resolver = "any"
  /\ radar = "refusing" /\ charts = {} /\ channelID = ""

SpecCadence == InitCadence /\ [][NextCadence]_vars

(***************************************************************************)
(* main: startup, the long-running loops, cancellation and panics          *)
(***************************************************************************)
\* the goroutines a panic can be raised in: the BGP reader, a probe of a
\* DNS round and the four loops
Goroutines == Loops \cup {"reader", "probe"}

\* the goroutines whose function is wrapped in a deferred recover() by main:
\* mon.Start (the sweep) and bot.SendPeriodicUpdates
Recovered == {"sweep", "pub"}

\* whether the goroutine exists
Exists(g) ==
  IF g = "reader" THEN bgpPc \in {"read", "redial", "resub"}
  ELSE IF g = "probe" THEN roundActive /\ \E i \in Servers : probe[i].pc # "done"
  ELSE tasks[g] = "running"

\* whether the loop stands at its select statement
AtSelect(l) ==
  IF l = "dns" THEN ~roundActive
  ELSE IF l = "pub" THEN pubPc = "wait"
  ELSE TRUE

\* main: NewMonitor returned an error, log.Fatalf ends the process
AbortStartup ==
  /\ process = "running"
  /\ bgpPc = "failed"
  /\ process' = "exited"
  /\ lastOp' = "Fatalf" /\ lastMsg' = NoMsg
  /\ UNCHANGED <<bgpVars, dnsVars, trafficVars, botVars, histVars, now>>
  /\ UNCHANGED <<fileASNs, ctxDone, tasks, resolver>>

\* StartMonitor without the check of NewMonitor's error
StartMonitor_Unchecked ==
  /\ process = "running"
  /\ bgpPc \notin {"dial", "boot"}
  /\ tasks["sweep"] = "unstarted"
  /\ tasks' = [tasks EXCEPT !["sweep"] = "running", !["dns"] = "running",
                            !["radar"] = "running"]
  /\ lastOp' = "StartMonitor" /\ lastMsg' = NoMsg
  /\ UNCHANGED <<bgpVars, dnsVars, trafficVars, botVars, histVars, now>>
  /\ UNCHANGED <<fileASNs, ctxDone, process, resolver>>

\* main: go mon.Start(ctx), which launches the DNS and the Radar loop and
\* then runs the sweep loop
StartMonitor ==
  /\ process = "running"
  /\ MonitorUp
  /\ tasks["sweep"] = "unstarted"
  /\ tasks' = [tasks EXCEPT !["sweep"] = "running", !["dns"] = "running",
                            !["radar"] = "running"]
  /\ lastOp' = "StartMonitor" /\ lastMsg' = NoMsg
  /\ UNCHANGED <<bgpVars, dnsVars, trafficVars, botVars, histVars, now>>
  /\ UNCHANGED <<fileASNs, ctxDone, process, resolver>>

\* main: go bot.SendPeriodicUpdates(ctx)
StartPublisher ==
  /\ process = "running"
  /\ tasks["sweep"] # "unstarted"
  /\ tasks["pub"] = "unstarted"
  /\ tasks' = [tasks EXCEPT !["pub"] = "running"]
  /\ lastOp' = "StartPublisher" /\ lastMsg' = NoMsg
  /\ UNCHANGED <<bgpVars, dnsVars, trafficVars, botVars, histVars, now>>
  /\ UNCHANGED <<fileASNs, ctxDone, process, resolver>>

\* main: a signal arrives and cancel() is called
Cancel ==
  /\ process = "running"
  /\ tasks["pub"] # "unstarted"
  /\ ~ctxDone
  /\ ctxDone' = TRUE
  /\ lastOp' = "cancel" /\ lastMsg' = NoMsg
  /\ UNCHANGED <<bgpVars, dnsVars, trafficVars, botVars, histVars, now>>
  /\ UNCHANGED <<fileASNs, tasks, process, resolver>>

\* main returns after cancel(): the deferred mon.Stop() runs
Shutdown == ctxDone /\ process = "running" /\ Stop

\* a loop's select takes the case <-ctx.Done() and the loop returns
LoopExit ==
  /\ ctxDone
  /\ \E l \in Loops :
       /\ tasks[l] = "running"
       /\ AtSelect(l)
       /\ tasks' = [tasks EXCEPT ![l] = "ended"]
  /\ lastOp' = "LoopExit" /\ lastMsg' = NoMsg
  /\ UNCHANGED <<bgpVars, dnsVars, trafficVars, botVars, histVars, now>>
  /\ UNCHANGED <<fileASNs, ctxDone, process, resolver>>

\* Monitor.Start: the sweep ticker fires and updateResults runs
Sweep ==
  /\ MonitorUp
  /\ UpdateResultsAny
  /\ pubResult' = SeenThrough(pubResult, resultsRef', results')
  /\ lastOp' = "updateResults" /\ lastMsg' = NoMsg
  /\ UNCHANGED <<bgpPc, bootIdx, conn, connUp, dials, subscribedASNs,
                 asnStatuses, framesSent, resubTodo, reconnecting, done,
                 dnsVars, now, radar, charts>>
  /\ UNCHANGED <<tickVars, chatVars>>
  /\ UNCHANGED <<lifeVars, handedOut>> /\ Wrote

\* the ticker case of each loop's select
LoopDNS == tasks["dns"] = "running" /\ StartRound
LoopRadar == tasks["radar"] = "running" /\ PeriodicFetch
LoopSweep == tasks["sweep"] = "running" /\ Sweep

\* a panic is raised in goroutine g.  Under a deferred recover() the
\* goroutine unwinds and ends; without one the Go runtime ends the process
\* and every goroutine with it.
Panic ==
  /\ process = "running"
  /\ \E g \in Goroutines :
       /\ Exists(g)
       /\ IF g \in Recovered
          THEN /\ tasks' = [tasks EXCEPT ![g] = "ended"]
               /\ pubPc' = IF g = "pub" THEN "ended" ELSE pubPc
               /\ UNCHANGED <<process, bgpPc, roundActive>>
          ELSE /\ process' = "crashed"
               /\ tasks' = [l \in Loops |->
                             IF tasks[l] = "running" THEN "killed" ELSE tasks[l]]
               /\ bgpPc' = "killed"
               /\ roundActive' = FALSE
               /\ pubPc' = "killed"
  /\ lastOp' = "panic" /\ lastMsg' = NoMsg
  /\ UNCHANGED <<bootIdx, conn, connUp, dials, subscribedASNs, asnStatuses,
                 framesSent, resubTodo, reconnecting, done, results>>
  /\ UNCHANGED <<servers, statuses, probe, roundResults, aliveIPs, roundStart,
                 preRound>>
  /\ UNCHANGED <<lastInterval, lastUpdateTime, lastChannelUpdateTime,
                 shouldSendChannelUpdate, shouldSendUserUpdate, usersTodo, sent,
                 tickSnapshot, tickPending, tickStart, ticks>>
  /\ UNCHANGED <<trafficVars, chatVars, heapVars, histVars, now>>
  /\ UNCHANGED <<fileASNs, ctxDone, resolver>>

\* the process from main's call of NewMonitor to its end, with a silent
\* BGP feed, a Radar service that refuses and no channel or subscriber
\* the accesses to shared state that the tasks stand before in this state:
\* the task, the location, whether the access writes, and the locks the
\* task holds while it makes the access
Accesses ==
  (IF bgpPc = "redial"
   THEN {[task |-> "reader", loc |-> "c.conn", write |-> TRUE,
          locks |-> {"c.reconnectMu"}]}
   ELSE {})
  \cup
  (IF bgpPc = "read"
   THEN {[task |-> "reader", loc |-> "c.conn", write |-> FALSE,
          locks |-> {"c.mu"}],
         [task |-> "reader", loc |-> "c.asnStatuses", write |-> TRUE,
          locks |-> {"c.mu"}]}
   ELSE {})
  \cup
  (IF ctxDone /\ process = "running" /\ ~done
      /\ bgpPc \in {"read", "redial", "resub"}
   THEN {[task |-> "main", loc |-> "c.conn", write |-> FALSE, locks |-> {}]}
   ELSE {})
  \cup
  (IF process = "running" /\ tasks["sweep"] = "running"
   THEN {[task |-> "sweep", loc |-> "c.asnStatuses", write |-> FALSE,
          locks |-> {"c.mu"}],
         [task |-> "sweep", loc |-> "dm.statuses", write |-> FALSE,
          locks |-> {"dm.mu"}],
         [task |-> "sweep", loc |-> "m.results", write |-> TRUE,
          locks |-> {}]}
   ELSE {})
  \cup
  (IF roundActive /\ \E i \in Servers : probe[i].pc = "exchange"
   THEN {[task |-> "probe", loc |-> "dm.statuses", write |-> TRUE,
          locks |-> {"dm.mu"}]}
   ELSE {})

NextLife ==
  \/ DialOk \/ DialFail \/ AbortStartup \/ BootSubscribe \/ BootStart
  \/ ReadError \/ RedialFail \/ RedialOk \/ Resubscribe \/ ReconnectDone
  \/ StartMonitor \/ StartPublisher \/ Cancel \/ Shutdown \/ LoopExit
  \/ LoopDNS \/ ExchangeRetry \/ CheckServerStore \/ CheckAllMerge
  \/ CheckAllPublish \/ LoopRadar \/ LoopSweep \/ Panic

InitLife ==
  /\ Init /\ servers = SingleServer /\ fileASNs = GetDefaultIranianASNs
  /\ resolver = "silent"
  /\ radar = "refusing" /\ charts = {} /\ channelID = ""

SpecLife == InitLife /\ [][NextLife]_vars

\* a step of the BGP reader goroutine after c.done was closed
ReaderStep ==
  done /\ (ReadError \/ RedialFail \/ RedialOk \/ Resubscribe \/ ReconnectDone)

\* a step of a probe round in progress
RoundStep == ExchangeRetry \/ CheckServerStore \/ CheckAllMerge \/ CheckAllPublish

\* the process that started up, until and after its cancellation
NextStop ==
  \/ DialOk \/ BootSubscribe \/ BootStart
  \/ ReadError \/ RedialFail \/ RedialOk \/ Resubscribe \/ ReconnectDone
  \/ StartMonitor \/ StartPublisher \/ Cancel \/ Shutdown \/ LoopExit
  \/ LoopDNS \/ ExchangeRetry \/ CheckServerStore \/ CheckAllMerge
  \/ CheckAllPublish \/ LoopRadar \/ LoopSweep

\* The reader goroutine keeps being scheduled and its blocking calls have
\* deadlines (60 s read deadline, 10 s handshake timeout); every exchange
\* of a probe has the client's timeout; and a select whose ctx.Done() case
\* is ready again and again takes it at some point, since Go chooses among
\* the ready cases at random.
FairStop ==
  /\ InitLife /\ [][NextStop]_vars
  /\ WF_vars(ReaderStep)
  /\ WF_vars(RoundStep)
  /\ SF_vars(LoopExit)

\* the subscriber, its feed and snapshot readers when the configuration
\* file carries an empty ASN list
NextNoASN ==
  \/ DialOk \/ DialFail \/ BootSubscribe \/ BootStart \/ ConnDrop
  \/ ReadMessage \/ Stop \/ GetResults

InitNoASN ==
  /\ Init /\ servers = SharedAddress /\ fileASNs = <<>>
  /\ resolver = "any"
  /\ radar = "refusing" /\ charts = {} /\ channelID = ""

SpecNoASN == InitNoASN /\ [][NextNoASN]_vars

(***************************************************************************)
(* Claims                                                                  *)
(***************************************************************************)

\* C1: after a read error and a successful redial, a subscribe frame has been
\* written on the new connection for every ASN of the remembered
\* subscription set.
C1_ResubscribedAfterRedial ==
  lastOp = "ReconnectDone" =>
    \A asn \in subscribedASNs : <<conn, asnNumber(asn)>> \in framesSent

\* C2: in every snapshot, also one taken while a probe round is in
\* progress, two DNS records that share an address have the same alive value.
C2_SharedAddressSameAlive ==
  \A k1 \in DOMAIN GetStatusesCopy, k2 \in DOMAIN GetStatusesCopy :
    GetStatusesCopy[k1].Server = GetStatusesCopy[k2].Server
      => GetStatusesCopy[k1].Alive = GetStatusesCopy[k2].Alive

\* C3: when a probe round completes, every record whose address was found
\* alive by at least one probe of the round is alive in the published store,
\* and with an empty error when its own probe had failed, whatever the order
\* in which the probes finished.
C3_AliveAddressUpgradesAll ==
  lastOp = "CheckAllPublish" =>
    \A i \in Servers, j \in Servers :
      (servers[i].Address = servers[j].Address /\ probe[j].own.Alive)
        => /\ statuses[Key(servers[i])].Alive
           /\ (~probe[i].own.Alive => statuses[Key(servers[i])].Error = NoError)

\* C4: no key of a round is visible to snapshot readers before the
\* upgrade-by-address step has seen all of the round's probe outcomes: while
\* some probe of the round has not been merged, a snapshot still shows the
\* records of before the round.
C4_NoEarlyVisibility ==
  (roundActive /\ \E j \in Servers : probe[j].pc # "done")
    => GetStatusesCopy = preRound

\* C5: a record that was alive, whose probe in a later round gets no
\* response while no probe of the same address is alive in that round, is
\* after that round not alive and carries the failure's error.
C5_GenuineFailureOverwrites ==
  lastOp = "CheckAllPublish" =>
    \A i \in Servers :
      ( /\ preRound[Key(servers[i])].Alive
        /\ probe[i].r = "nil"
        /\ \A j \in Servers :
             servers[j].Address = servers[i].Address => ~probe[j].own.Alive )
        => /\ ~statuses[Key(servers[i])].Alive
           /\ statuses[Key(servers[i])].Error = probe[i].own.Error

\* C6: after boot the snapshot's ASN map has an entry for every configured
\* ASN, also when its initial subscribe frame could not be sent.
C6_ConfiguredASNsInSnapshot ==
  lastOp = "GetResults" =>
    \A i \in 1..Len(IranASNs) : IranASNs[i] \in DOMAIN results.ASNStatuses

OccursInPathAnyMember(number, path) ==
  \E i \in 1..Len(path) :
    \/ (path[i].k = "num" /\ path[i].n % 10 = 0 /\ DecimalDigits(path[i].n \div 10) = number)
    \/ (path[i].k = "str" /\ path[i].s = number)
    \/ (path[i].k = "set" /\
          \E j \in 1..Len(path[i].items) :
            \/ (path[i].items[j].k = "num" /\ path[i].items[j].n % 10 = 0
                  /\ DecimalDigits(path[i].items[j].n \div 10) = number)
            \/ (path[i].items[j].k = "str" /\ path[i].items[j].s = number))

OccursInPathNumericMembers(number, path) ==
  \E i \in 1..Len(path) :
    \/ (path[i].k = "num" /\ FormatFloat0(path[i].n) = number)
    \/ (path[i].k = "str" /\ path[i].s = number)
    \/ (path[i].k = "set" /\
          \E j \in 1..Len(path[i].items) :
            path[i].items[j].k = "num" /\ FormatFloat0(path[i].items[j].n) = number)

\* whole seconds of a float timestamp given in tenths
WholeSeconds(ts) == CHOOSE w \in ((ts \div 10) - 1)..((ts \div 10) + 1) :
                      IF ts >= 0 THEN w * 10 <= ts /\ ts < (w + 1) * 10
                      ELSE (w - 1) * 10 < ts /\ ts <= w * 10

C9_ClassificationByResponse ==
  \A i \in Servers :
    probe[i].pc \in {"merge", "done"} =>
      IF probe[i].r # "nil"
      THEN /\ probe[i].own.Alive
           /\ (probe[i].r = "NOERROR" => probe[i].own.Error = NoError)
           /\ (probe[i].r # "NOERROR" =>
                 probe[i].own.Error # NoError /\ probe[i].own.Error[2] = probe[i].r)
      ELSE /\ ~probe[i].own.Alive
           /\ probe[i].own.Error # NoError
           /\ probe[i].own.Error[2] = probe[i].err

\* C10: a probe performs at most 3 exchanges; it is about to perform a
\* further one only when the previous exchange returned no response and a
\* network-level error: any response and any protocol-level error have
\* ended the loop.
C10_RetryLoopBounded ==
  \A i \in Servers :
    probe[i].pc = "exchange" =>
      /\ probe[i].n + 1 <= 3
      /\ (probe[i].n >= 1 =>
            probe[i].r = "nil" /\ probe[i].err \in NetworkErrors)

\* C10 witness: a probe is about to make its third exchange after two
\* network errors
C10_Witness ==
  \E i \in Servers :
    probe[i].pc = "exchange" /\ probe[i].n = 2 /\ probe[i].err = ErrTimeout

\* C11: whenever a country-traffic fetch fails (I/O, non-200, unparseable
\* body, success=false, empty after the retry) the caller receives an error,
\* and the cached sample and its cached_at are exactly what they were before
\* the call.
C11_FailedFetchKeepsCache ==
  [][ ( /\ lastOp' \in {"FetchFromCloudflare", "GetTrafficData"}
        /\ requests' # <<>>
        /\ trafficRet'.data = NilData )
        => /\ trafficRet'.err # NoErr
           /\ cachedData' = cachedData
           /\ lastUpdate' = lastUpdate ]_vars

\* C11 witness: a fetch has just failed on its first request while a sample
\* fetched earlier is cached
C11_Witness ==
  /\ lastOp = "FetchFromCloudflare"
  /\ requests = <<"IR">>
  /\ trafficRet.data = NilData
  /\ trafficRet.err = "cloudflare API status"
  /\ cachedData # NilData
  /\ lastUpdate < now

\* C12: get returns the cached sample without issuing any request if a
\* sample is cached and now minus cached_at is less than 5 minutes; in every
\* other case it performs a fetch and returns that fetch's sample or error.
C12_GetUsesFreshCache ==
  [][ lastOp' = "GetTrafficData" =>
        IF cachedData # NilData /\ now - lastUpdate < FreshTTL
        THEN /\ requests' = <<>>
             /\ trafficRet' = [data |-> cachedData, err |-> NoErr]
             /\ cachedData' = cachedData
             /\ lastUpdate' = lastUpdate
        ELSE /\ requests' # <<>>
             /\ requests'[1] = "IR"
             /\ (trafficRet'.err = NoErr) = (trafficRet'.data # NilData)
             /\ trafficRet'.data # NilData => trafficRet'.data.LastUpdate = now ]_vars

\* C12 witness: get has just fetched because the cached sample was exactly
\* 5 minutes old
C12_Witness ==
  /\ lastOp = "GetTrafficData"
  /\ requests # <<>>
  /\ trafficRet.data # NilData
  /\ cachedData # NilData
  /\ cachedData # trafficRet.data
  /\ now - lastUpdate = FreshTTL

\* C13: when the response for the primary country code contains no series,
\* the client issues exactly one further request, with the ISO3 code; if
\* that one also yields no series, the fetch reports an error without any
\* further request and leaves the prior cached sample untouched.
C13_OneRetryThenError ==
  \A retry \in AllResponses :
    LET out == FetchOutcome(EmptySerie, retry, now)
    IN  /\ out.requests = <<"IR", "IRN">>
        /\ ~extractSeries(retry).found =>
             /\ out.err # NoErr
             /\ out.data = NilData
             /\ CacheAfter(out, now) =
                  [cachedData |-> cachedData, lastUpdate |-> lastUpdate]

\* C13 witness: a fetch has just ended in an error after its second request
\* while a sample fetched earlier is cached
C13_Witness ==
  /\ lastOp = "FetchFromCloudflare"
  /\ requests = <<"IR", "IRN">>
  /\ trafficRet.err = "no traffic data in response"
  /\ cachedData # NilData
  /\ lastUpdate < now

\* C14: every country traffic sample produced from an accepted response has
\* all trend values within [0, 100], at most 24 trend entries, and exactly as
\* many timestamps as trend entries.
C14_TrendBounded ==
  trafficRet.data # NilData =>
    /\ \A i \in 1..Len(trafficRet.data.Trend24h) :
         /\ ~FGt(F(0), trafficRet.data.Trend24h[i])
         /\ ~FGt(trafficRet.data.Trend24h[i], F(100))
    /\ Len(trafficRet.data.Trend24h) <= 24
    /\ Len(trafficRet.data.Timestamps) = Len(trafficRet.data.Trend24h)

\* the band of the ratio current / baseline for a baseline other than zero,
\* by cross-multiplication of the two fractions
StatusBand(current, base) ==
  LET num == current[1] * base[2] * Sign(base[1])
      den == current[2] * Abs(base[1])
  IN  IF 10 * num > 7 * den THEN "Normal"
      ELSE IF 10 * num > 3 * den THEN "Degraded"
      ELSE IF 10 * num > den THEN "Throttled"
      ELSE "Shutdown"

\* the baseline a sample with this trend was computed against
SampleBase(trend) ==
  IF Len(trend) > 12 THEN FDiv(FSum(trend, 12), F(12)) ELSE F(100)

\* the ratios at and next to the three thresholds, against a baseline of 40
ThresholdLevels == {F(3), F(4), F(5), F(11), F(12), F(13), F(27), F(28), F(29)}

C16_BaselineAndChange ==
  trafficRet.data # NilData =>
    LET trend == trafficRet.data.Trend24h
        current == trafficRet.data.CurrentLevel
        mean == FDiv(FSum(trend, 12), F(12))
    IN  IF Len(trend) <= 12
        THEN /\ trafficRet.data.ChangePercent = FSub(current, F(100))
             /\ IsFinite(trafficRet.data.ChangePercent)
        ELSE trafficRet.data.ChangePercent =
               FMul(FDiv(FSub(current, mean), mean), F(100))

\* C16 witness: a sample of exactly 12 values has just been produced, whose
\* first 12 trend entries do not average 100
C16_Witness ==
  /\ lastOp = "FetchFromCloudflare"
  /\ trafficRet.data # NilData
  /\ Len(trafficRet.data.Trend24h) = 12
  /\ FDiv(FSum(trafficRet.data.Trend24h, 12), F(12)) # F(100)
  /\ trafficRet.data.ChangePercent = F(0 - 30)

\* the instant the loop's publication to the subscribers counts from: the
\* tick being handled when that tick publishes to them, else the present
PublicationInstant ==
  IF pubPc # "wait" /\ shouldSendUserUpdate THEN tickStart ELSE now

\* C17: after the subscriber interval is changed to a new value I while at
\* least one chat is subscribed, the next per-subscriber publication happens
\* no later than I + 1 second after the change call.
C17_PublishedWithinInterval ==
  (awaiting /\ subscribedChats # {})
    => PublicationInstant <= changeAt + updateInterval + 1

\* C18: within one publication tick, the channel and every subscriber are
\* sent content built from one and the same snapshot, taken once for the
\* tick, and no component write changes that snapshot's contents while the
\* tick is being published.
C18_OneSnapshotPerTick ==
  /\ \A i \in 1..Len(sent) : sent[i].result = tickSnapshot
  /\ pubPc \in {"channel", "users"} => pubResult.val = tickSnapshot

\* C18 witness: one tick has published to the channel and to a subscriber,
\* and between the two sends another snapshot replaced the monitor's result
C18_Witness ==
  /\ lastOp = "SendUser"
  /\ Len(sent) = 2
  /\ sent[1].target = channelID
  /\ sent[2].target \in Chats
  /\ sent[2].result = sent[1].result
  /\ results # tickSnapshot
  /\ resultsRef # pubResult.ref

\* the kinds of the messages of one publication, in the order sent
Kinds(publication) ==
  [i \in 1..Len(publication.msgs) |-> publication.msgs[i].kind]

\* what a publication of this result has to consist of
ExpectedKinds(result) ==
  <<"header", "asn", "dns">>
  \o (IF result.TrafficData # NilData /\ result.TrafficData.ChartBuffer
      THEN <<"chart">> ELSE <<>>)
  \o (IF result.ASTrafficData # <<>> /\ result.ASTrafficData[1].ChartBuffer
      THEN <<"asn_chart">> ELSE <<>>)

\* the publications the state remembers: those of the tick and the last
\* reply to /status
Publications ==
  {sent[i] : i \in 1..Len(sent)} \cup (IF reply = NoReply THEN {} ELSE {reply})

SnapshotTaken == lastOp \in {"TakeSnapshot", "sendStatus", "GetResults"}

\* the snapshot shows no connected ASN and no live DNS server
BGPAndDNSFailing ==
  /\ \A asn \in DOMAIN results.ASNStatuses : ~results.ASNStatuses[asn].Connected
  /\ \A key \in DOMAIN results.DNSStatuses : ~results.DNSStatuses[key].Alive

\* the country traffic sample a snapshot carries, without its chart
SampleOf(td) ==
  IF td = NilData THEN NilData
  ELSE [IsNil |-> FALSE,
        CurrentLevel |-> td.CurrentLevel,
        Trend24h |-> td.Trend24h,
        Timestamps |-> td.Timestamps,
        ChangePercent |-> td.ChangePercent,
        Status |-> td.Status,
        LastUpdate |-> td.LastUpdate]

\* C20 as stated: when all three components are failing, taking a snapshot
\* still succeeds and the snapshot carries the most recently observed value
\* of every component, including the last successfully fetched country
\* traffic sample.
C20_FailedSnapshotCarriesLastSample ==
  (SnapshotTaken /\ BGPAndDNSFailing /\ trafficRet.err # NoErr)
    => /\ results.Timestamp = now
       /\ DOMAIN results.ASNStatuses = Range(IranASNs)
       /\ results.DNSStatuses = GetStatusesCopy
       /\ SampleOf(results.TrafficData) = cachedData

\* C20 amended: when BGP and DNS are failing, taking a snapshot still
\* succeeds and the snapshot carries the stored ASN and DNS records; it
\* carries the last successfully fetched country traffic sample when that
\* sample is less than 5 minutes old, and no country traffic when the
\* sample is older (or there is none) and the fetch fails.
C20_FailedSnapshotCarriesFreshSample ==
  (SnapshotTaken /\ BGPAndDNSFailing)
    => /\ results.Timestamp = now
       /\ DOMAIN results.ASNStatuses = Range(IranASNs)
       /\ results.DNSStatuses = GetStatusesCopy
       /\ requests = <<>> =>
            /\ cachedData # NilData
            /\ now - lastUpdate < FreshTTL
            /\ SampleOf(results.TrafficData) = cachedData
       /\ (requests # <<>> /\ trafficRet.err # NoErr) =>
            results.TrafficData = NilData

\* C20 witness: the tick's snapshot was taken with BGP and DNS failing, a
\* cached sample of 5 minutes or more and a failed fetch
C20_Witness ==
  /\ lastOp = "TakeSnapshot"
  /\ BGPAndDNSFailing
  /\ cachedData # NilData
  /\ now - lastUpdate >= FreshTTL
  /\ trafficRet.err # NoErr
  /\ results.TrafficData = NilData

\* C21: publishing the same set of probe results twice in succession leaves
\* the DNS store as publishing it once does.  Publishing is the write of a
\* round's result map into the store at the end of CheckAll and, for one
\* result, the guarded store of checkServer; both are applied to the store
\* as it is and to the store as it was before the round.
C21_PublishIdempotent ==
  \A store \in {statuses, preRound} :
    /\ PublishRound(PublishRound(store, roundResults), roundResults)
         = PublishRound(store, roundResults)
    /\ \A key \in DOMAIN roundResults :
         StoreStatus(StoreStatus(store, key, roundResults[key]),
                     key, roundResults[key])
           = StoreStatus(store, key, roundResults[key])

\* a completed round has been published whose results differ from the store
\* the round started with
C21_Witness ==
  /\ lastOp = "CheckAllPublish"
  /\ DOMAIN roundResults = DOMAIN statuses
  /\ PublishRound(preRound, roundResults) # preRound
  /\ statuses = PublishRound(statuses, roundResults)

\* C22: when the UPDATE that has just been handled is handled a second time
\* at once, the connected flag CheckConnectivity derives for every ASN is
\* the one it derives after the first handling.
C22_ReappliedUpdateKeepsFlags ==
  lastOp = "handleRISMessage" =>
    LET again == StampStatuses(asnStatuses, lastMsg, now)
    IN  \A asn \in DOMAIN asnStatuses :
          DerivedConnected(again[asn], now) = DerivedConnected(asnStatuses[asn], now)

\* an UPDATE has been handled that matches a subscribed ASN and leaves it
\* connected, while another ASN stays not connected
C22_Witness ==
  /\ lastOp = "handleRISMessage"
  /\ lastMsg.Type = "UPDATE"
  /\ \E asn \in DOMAIN asnStatuses :
       /\ UpdateMatches(asn, lastMsg)
       /\ DerivedConnected(asnStatuses[asn], now)
  /\ \E asn \in DOMAIN asnStatuses : ~DerivedConnected(asnStatuses[asn], now)

\* the snapshot the call before the last GetResults call returned, when no
\* component wrote between the two calls
PreviousSnapshot == snapHist.prev

ConsecutiveSnapshots ==
  /\ lastOp = "GetResults"
  /\ PreviousSnapshot.Timestamp # ZeroTime

\* C23 as stated: two consecutive snapshot calls with no component write
\* between them return values that are equal field for field.
C23_ConsecutiveSnapshotsEqual ==
  ConsecutiveSnapshots => results = PreviousSnapshot

\* C23, amended: two consecutive snapshot calls with no component write
\* between them return the same DNS map and, for the same ASNs, the same
\* ASN, last-seen and last-update fields; the connected flags are the same
\* when both calls read the same clock value.
C23_ConsecutiveSnapshotsSameStores ==
  ConsecutiveSnapshots =>
    /\ results.DNSStatuses = PreviousSnapshot.DNSStatuses
    /\ DOMAIN results.ASNStatuses = DOMAIN PreviousSnapshot.ASNStatuses
    /\ \A asn \in DOMAIN results.ASNStatuses :
         LET new == results.ASNStatuses[asn]
             old == PreviousSnapshot.ASNStatuses[asn]
         IN  /\ new.ASN = old.ASN
             /\ new.LastSeen = old.LastSeen
             /\ new.LastUpdate = old.LastUpdate
             /\ results.Timestamp = PreviousSnapshot.Timestamp
                  => new.Connected = old.Connected

\* two snapshots were taken at different times with no write between them,
\* and an ASN that the first exported as connected is not connected in the
\* second
C23_Witness ==
  /\ ConsecutiveSnapshots
  /\ results.Timestamp > PreviousSnapshot.Timestamp
  /\ \E asn \in DOMAIN results.ASNStatuses :
       /\ PreviousSnapshot.ASNStatuses[asn].Connected
       /\ ~results.ASNStatuses[asn].Connected

\* C24: in every reachable state every DNS record with alive = true has a
\* non-zero last check time, in the store, in the result map of the round
\* in progress and in the map GetStatuses hands out.
C24_AliveHasLastCheck ==
  /\ \A k \in DOMAIN statuses : statuses[k].Alive => statuses[k].LastCheck # ZeroTime
  /\ \A k \in DOMAIN roundResults :
       roundResults[k].Alive => roundResults[k].LastCheck # ZeroTime
  /\ \A k \in DOMAIN GetStatusesCopy :
       GetStatusesCopy[k].Alive => GetStatusesCopy[k].LastCheck # ZeroTime

\* a record is alive only through the upgrade by address: its own probe
\* failed in this round and a record of the same address answered
C24_Witness ==
  /\ lastOp = "CheckAllPublish"
  /\ \E i \in Servers :
       /\ ~probe[i].own.Alive
       /\ ~preRound[Key(servers[i])].Alive
       /\ statuses[Key(servers[i])].Alive
       /\ statuses[Key(servers[i])].Error = NoError
       /\ statuses[Key(servers[i])].LastCheck = roundStart

SendingDisturbed ==
  /\ ~connUp
  /\ \/ bgpPc = "boot" /\ bootIdx <= Len(IranASNs)
     \/ bgpPc = "resub" /\ resubTodo # {}

\* the subscriber reads on a live connection on which no subscribe frame
\* was written for some remembered ASN: nothing is being retried
SendingGivenUp ==
  /\ bgpPc = "read" /\ connUp /\ ~done
  /\ \E asn \in subscribedASNs : <<conn, asnNumber(asn)>> \notin framesSent

\* C26: once the connection has dropped while subscribe frames were being
\* sent, sending is retried until every remembered ASN has been subscribed
\* on a live connection or the subscriber is stopped: the subscriber never
\* settles into reading from a live connection that lacks one of them.
C26_SubscribeRetriedUntilDone ==
  [](SendingDisturbed => [](~SendingGivenUp))

AllLoopsExited ==
  /\ bgpPc = "exited"
  /\ \A l \in Loops : tasks[l] = "ended"

\* C30: after the context has been cancelled and the monitor stopped, the
\* BGP reader, the DNS periodic loop, the Radar refresh loop, the monitor
\* sweep loop and the publication loop all exit eventually.
C30_LoopsExitAfterCancel ==
  (ctxDone /\ done) ~> AllLoopsExited

\* every loop has exited after a cancellation that came while a probe
\* round was in progress and the reader was in reconnect
C30_Witness ==
  /\ AllLoopsExited
  /\ ctxDone /\ done
  /\ dials = MaxDials
  /\ \E k \in DOMAIN statuses : statuses[k].LastCheck # ZeroTime

\* nothing of the monitor or the bot has run: no loop was started, no
\* probe round, Radar request, snapshot or tick has happened
NothingStarted ==
  /\ \A l \in Loops : tasks[l] = "unstarted"
  /\ ~roundActive /\ statuses = NewDNSMonitor(servers)
  /\ requests = <<>> /\ cachedData = NilData
  /\ results.Timestamp = 0 /\ results.ASNStatuses = <<>>
  /\ ticks = 0 /\ pubPc = "wait"
  /\ framesSent = {} /\ subscribedASNs = {}

\* C27: when the initial BGP dial has failed, monitor construction has
\* returned an error and startup is aborted: no reader, probe, refresh or
\* publication task has been started, in any state from then on.
C27_FailedDialAbortsStartup ==
  bgpPc = "failed" =>
    /\ NothingStarted
    /\ process \in {"running", "exited"}
    /\ ~ctxDone /\ ~done

\* the dial failed and main has ended the process
C27_Witness ==
  /\ bgpPc = "failed"
  /\ process = "exited"
  /\ lastOp = "Fatalf"

\* C28: a panic raised inside any long-running loop (the BGP reader, a DNS
\* round or one of its probes, the Radar refresh, the monitor sweep, the
\* publication loop) is caught and does not terminate the process; the
\* other loops keep running.
C28_PanicContained ==
  lastOp = "panic" =>
    /\ process = "running"
    /\ bgpPc # "killed"
    /\ \A l \in Loops : tasks[l] # "killed"

\* the probe of server i has just finished: checkServer classified its
\* result and went through its store section
ProbeFinished(i) ==
  /\ probe[i].pc = "exchange"
  /\ probe'[i].pc = "merge"

\* C32: when a probe finishes not alive for a key whose stored record is
\* alive, the stored record is left as it is in every field; in every
\* other case the record stored under that key becomes the new result.
C32_FailedProbeKeepsLiveRecord ==
  [][\A i \in Servers :
       ProbeFinished(i) =>
         LET key == Key(servers[i])
             new == probe'[i].own
         IN  IF statuses[key].Alive /\ ~new.Alive
             THEN statuses'[key] = statuses[key]
             ELSE statuses'[key] = new]_vars

\* a failed probe has just finished for a key whose record is alive, and
\* the record still carries the time and response time of an earlier round
C32_Witness ==
  /\ lastOp = "CheckServerStore"
  /\ \E i \in Servers :
       /\ probe[i].pc = "merge"
       /\ ~probe[i].own.Alive
       /\ statuses[Key(servers[i])].Alive
       /\ statuses[Key(servers[i])].LastCheck < probe[i].own.LastCheck
       /\ statuses[Key(servers[i])] = preRound[Key(servers[i])]

\* what ctx.Err() returns once the context is cancelled
ErrCanceled == "context canceled"

\* the probe of server i is between two passes of its retry loop, where
\* it waits in the backoff select, and the context is already cancelled
CancelledInBackoff(i) ==
  /\ ctxDone /\ roundActive
  /\ probe[i].pc = "exchange"
  /\ probe[i].n > 0

\* C33: when the context is cancelled while a probe waits in its retry
\* backoff, the probe's next step makes no exchange: it leaves the retry
\* loop with the context's error and returns.
C33_CancelledBackoffMakesNoExchange ==
  [][\A i \in Servers :
       (CancelledInBackoff(i) /\ probe'[i] # probe[i]) =>
         /\ probe'[i].pc = "merge"
         /\ probe'[i].n = 0
         /\ probe'[i].err = ErrCanceled]_vars

\* the reader goroutine is running, the subscriber is not stopped and its
\* connection is down
ReaderDisconnected ==
  /\ ~done /\ ~connUp
  /\ bgpPc \in {"read", "redial", "resub"}

\* reconnect is about to dial
RedialPending == bgpPc = "redial"

LastArrivedMatches(asn) ==
  /\ lastOp' = "handleRISMessage"
  /\ lastMsg'.Type = "UPDATE"
  /\ asn \in subscribedASNs
  /\ UpdateMatches(asn, lastMsg')

\* C35 as stated: after every matching update, whatever came before it, the
\* ASN's last_seen_at equals the timestamp the update carries.
C35_LastSeenIsLastArrived ==
  [][\A asn \in DOMAIN asnStatuses :
       LastArrivedMatches(asn) =>
         asnStatuses'[asn].LastSeen * 10 = lastMsg'.Timestamp]_vars

\* C35 amended: after every matching update, whatever came before it, the
\* ASN's last_seen_at is the timestamp the update carries, truncated to
\* whole seconds, also when the stored time was a later one.
C35_LastSeenIsLastArrivedTruncated ==
  [][\A asn \in DOMAIN asnStatuses :
       LastArrivedMatches(asn) =>
         asnStatuses'[asn].LastSeen = WholeSeconds(lastMsg'.Timestamp)]_vars

\* the update handled last has moved an ASN's last_seen_at back: the
\* snapshot taken before it shows a later time for that ASN
C35_Witness ==
  /\ lastOp = "handleRISMessage"
  /\ lastMsg.Type = "UPDATE"
  /\ \E asn \in DOMAIN asnStatuses \cap DOMAIN results.ASNStatuses :
       /\ UpdateMatches(asn, lastMsg)
       /\ asnStatuses[asn].LastSeen = WholeSeconds(lastMsg.Timestamp)
       /\ results.ASNStatuses[asn].LastSeen > asnStatuses[asn].LastSeen
       /\ results.ASNStatuses[asn].LastSeen # ZeroTime

\* C36: an interval change requested by one subscriber changes that
\* subscriber's publication cadence only: whoever the requester is, the
\* interval on which every other subscribed chat is published to is the
\* same after the request as before.  The loop publishes to every
\* subscribed chat when updateInterval has elapsed.
C36_IntervalChangeIsPerSubscriber ==
  [][lastOp' = "handleSetInterval" =>
       \E requester \in TwoChats :
         \A other \in subscribedChats \ {requester} :
           updateInterval' = updateInterval]_vars

\* C37: interval changes by subscribers never alter channel publication.
\* A tick decides to publish to the channel exactly when a channel is
\* configured and either nothing was published to it yet (the first tick
\* after start) or at least 10 minutes have passed since the previous
\* channel publication; the channel is published to only on such a tick;
\* and a /interval request leaves the time of the previous channel
\* publication and a decision already taken as they are.
C37_ChannelEveryTenMinutes ==
  [][/\ lastOp' = "CheckTick" =>
          (shouldSendChannelUpdate' <=>
             /\ channelID # ""
             /\ \/ lastChannelUpdateTime = ZeroTime
                \/ tickStart' - lastChannelUpdateTime >= 10 * Minute)
     /\ lastOp' = "SendChannel" =>
          /\ shouldSendChannelUpdate
          /\ \E i \in 1..Len(sent') : sent'[i].target = channelID
          /\ lastChannelUpdateTime' = now
     /\ lastChannelUpdateTime' # lastChannelUpdateTime => lastOp' = "SendChannel"
     /\ lastOp' = "handleSetInterval" =>
          /\ lastChannelUpdateTime' = lastChannelUpdateTime
          /\ shouldSendChannelUpdate' = shouldSendChannelUpdate
          /\ pubPc' = pubPc]_vars

\* the tick that is about to publish to the channel a second time, ten
\* minutes after the first, while a subscriber has changed the interval
C37_Witness ==
  /\ pubPc = "channel"
  /\ lastChannelUpdateTime # ZeroTime
  /\ tickStart - lastChannelUpdateTime >= 10 * Minute
  /\ updateInterval # cfgInterval
  /\ lastInterval = updateInterval

\* C38: once Stop has been called the subscriber dials no new connection,
\* so that no connection is open after the reader has exited.
C38_NoDialAfterStop ==
  /\ [][done => dials' = dials]_vars
  /\ [](bgpPc = "exited" => ~connUp)

\* the call that ran last issued requests to the Radar service and
\* returned a sample
FetchSucceeded ==
  /\ lastOp \in {"FetchFromCloudflare", "GetTrafficData"}
  /\ requests # <<>>
  /\ trafficRet.err = NoErr

\* C39: every successful fetch, the one that succeeds on the retry with the
\* alternate country code included, leaves the returned sample in the cache
\* with the time of caching set to now, so that the cache is fresh and a
\* get issues no request.
C39_SuccessfulFetchIsCached ==
  FetchSucceeded =>
    /\ cachedData = trafficRet.data
    /\ lastUpdate = now
    /\ IsFresh(now)

\* C40: for every series of more than 12 values the baseline that
\* processData and determineStatus divide by is not zero, so that
\* change_percent and the ratio current / baseline are finite numbers.
C40_LongSeriesBaselineNonZero ==
  (FetchSucceeded /\ Len(trafficRet.data.Trend24h) > BaselineCount) =>
    LET base == SampleBase(trafficRet.data.Trend24h)
    IN  /\ base # F(0)
        /\ IsFinite(trafficRet.data.ChangePercent)
        /\ IsFinite(FDiv(trafficRet.data.CurrentLevel, base))

\* two tasks stand before accesses to the same location, one of them a
\* write, and no lock is held by both
Race ==
  \E a, b \in Accesses :
    /\ a.task # b.task
    /\ a.loc = b.loc
    /\ a.write \/ b.write
    /\ a.locks \cap b.locks = {}

\* C31: every read and write of the merged snapshot, of the component
\* maps and of the connection handle is made under the owning lock: in no
\* reachable state do two tasks access the same location at once, one of
\* them writing, without a lock that both hold.
C31_AccessesUnderOwningLock == ~Race

====
